---- MODULE Spec2Model ----
(***************************************************************************)
(* PyCHMviewer (src/src/pyview.py): the sitemap parser HtmlHelpParser, the *)
(* path resolution of MainWindow.open_local, the contents tree, the index  *)
(* and the start page that MainWindow builds from the parsed trees, the    *)
(* search page, the decoding of sitemap files, load_from_chm_path and      *)
(* go_home.                                                                *)
(*                                                                         *)
(* Python strings are sequences of one-character strings, so that strip,   *)
(* lower, split, startswith and normpath are computed character by         *)
(* character.  Optional[str] is a sequence of at most one string: None is  *)
(* <<>> and a present value s is <<s>>.  TocNode objects live in an arena  *)
(* (the sequence nodes); a reference to a node is its index, and the       *)
(* reference None is 0.                                                    *)
(***************************************************************************)
EXTENDS Integers, Sequences, FiniteSets, TLC

VARIABLES
    \* HtmlHelpParser
    nodes,               \* arena of TocNode: [title, local, children]
    stack,               \* self._stack, indices into nodes
    in_object,           \* self._in_object
    cur_name,            \* self._cur_name
    cur_local,           \* self._cur_local
    last_created,        \* self._last_created (0 is None)
    pending_push_on_ul,  \* self._pending_push_on_ul
    fed,                 \* the markers HTMLParser.feed has delivered so far
    todo,                \* the markers of the text still to be delivered
    \* MainWindow
    base_dir,            \* self.base_dir
    web,                 \* the URL shown by self.web
    warnings,            \* the QMessageBox.warning calls made, oldest first
    existsLog,           \* the paths os.path.exists was asked about
    local,               \* the argument of the latest open_local call
    contents_model,      \* self.contents_model: its top-level rows, each item
                         \* [text, local, bread, icon, rows]
    index_model,         \* self.index_model: its rows, items of the same kind
    hhc,                 \* the markers of the text of the .hhc file on disk
    hhk,                 \* the markers of the text of the .hhk file on disk
    search_text,         \* self.search_edit.text()
    chm,                 \* the archive of the latest load_from_chm_path call
    loaded,              \* the archive of the latest load that completed
    \* _read_text_fallback
    file_bytes,          \* the bytes of the file at path
    read_text,           \* what the call returned, None before it
    \* tempfile.mkdtemp
    tmp_made             \* how many directories it has handed out

pvars == <<nodes, stack, in_object, cur_name, cur_local, last_created,
           pending_push_on_ul, fed, todo>>
wvars == <<base_dir, web, warnings, existsLog, local>>
mvars == <<contents_model, index_model, hhc, hhk>>
evars == <<search_text, chm, loaded, file_bytes, read_text, tmp_made>>
vars == <<pvars, wvars, mvars, evars>>

----------------------------------------------------------------------------
(* Bounds of the model *)

MaxMarkers == 4
MaxDeep == 7
MaxN == 3
MaxM == 3
MaxSegs == 2
MaxEntries == 3
MaxQuery == 4
MaxBytes == 4
MaxTmp == 2

----------------------------------------------------------------------------
(* Strings *)

None == <<>>
Some(s) == <<s>>

\* (o or ""): None and "" both give ""
OrEmpty(o) == IF o = None THEN <<>> ELSE o[1]

UpperChars ==
    <<"A","B","C","D","E","F","G","H","I","J","K","L","M",
      "N","O","P","Q","R","S","T","U","V","W","X","Y","Z">>
LowerChars ==
    <<"a","b","c","d","e","f","g","h","i","j","k","l","m",
      "n","o","p","q","r","s","t","u","v","w","x","y","z">>

LowerChar(c) ==
    IF \E i \in DOMAIN UpperChars : UpperChars[i] = c
    THEN LowerChars[CHOOSE i \in DOMAIN UpperChars : UpperChars[i] = c]
    ELSE c

\* str.lower()
Lower(s) == [i \in DOMAIN s |-> LowerChar(s[i])]

IsSpace(c) == c \in {" ", "\t", "\n", "\r"}

RECURSIVE LStrip(_)
LStrip(s) ==
    IF s # <<>> /\ IsSpace(Head(s)) THEN LStrip(Tail(s)) ELSE s

RECURSIVE RStrip(_)
RStrip(s) ==
    IF s # <<>> /\ IsSpace(s[Len(s)])
    THEN RStrip(SubSeq(s, 1, Len(s) - 1))
    ELSE s

\* str.strip()
Strip(s) == RStrip(LStrip(s))

\* sub in s
Contains(sub, s) ==
    \E i \in 0..(Len(s) - Len(sub)) : SubSeq(s, i + 1, i + Len(sub)) = sub

\* s.startswith(p)
StartsWith(s, p) == Len(p) <= Len(s) /\ SubSeq(s, 1, Len(p)) = p

S_text_sitemap == <<"t","e","x","t","/","s","i","t","e","m","a","p">>
S_Untitled == <<"U","n","t","i","t","l","e","d">>
S_ROOT == <<"R","O","O","T">>
S_name == <<"n","a","m","e">>
S_local == <<"l","o","c","a","l">>

----------------------------------------------------------------------------
(* Markers: what HTMLParser hands to handle_starttag and handle_endtag.    *)
(* HTMLParser delivers tag names and attribute names already in lower      *)
(* case, attribute values as written (None when the attribute is absent).  *)

NoAttrs == [type |-> None, name |-> None, value |-> None]

StartMarker(tag, attrs) == [kind |-> "start", tag |-> tag, attrs |-> attrs]
EndMarker(tag) == [kind |-> "end", tag |-> tag, attrs |-> NoAttrs]

ObjectOpen(type) == StartMarker("object", [NoAttrs EXCEPT !.type = Some(type)])
Param(name, value) ==
    StartMarker("param", [NoAttrs EXCEPT !.name = Some(name), !.value = Some(value)])
ListOpen == StartMarker("ul", NoAttrs)
ListClose == EndMarker("ul")
ObjectClose == EndMarker("object")

SitemapType == <<"T","e","x","t","/","S","i","t","e","m","a","p">>
OtherType == <<"i","m","a","g","e","/","x">>

StartMarkers ==
    { ObjectOpen(SitemapType), ObjectOpen(OtherType),
      Param(<<"N","a","m","e">>, <<" ","a"," ">>),
      Param(<<"N","a","m","e">>, <<"b">>),
      Param(<<"N","a","m","e">>, <<" ">>),
      Param(<<"L","o","c","a","l">>, <<"x"," ">>),
      Param(<<"L","o","c","a","l">>, <<" ">>),
      Param(<<"K","e","y">>, <<"k">>),
      ListOpen,
      StartMarker("li", NoAttrs) }

EndTags == {"object", "ul", "li"}

\* the markers that build and nest entries, of which longer streams are fed
CoreMarkers ==
    { ObjectOpen(SitemapType),
      Param(<<"N","a","m","e">>, <<"b">>),
      Param(<<"L","o","c","a","l">>, <<"x"," ">>),
      ListOpen, ObjectClose, ListClose }

----------------------------------------------------------------------------
(* HtmlHelpParser *)

Root == 1

TocNode(title, loc) == [title |-> title, local |-> loc, children |-> <<>>]

\* every object taken for a sitemap entry, whatever its type
IsSitemapTypeAny(attrs) == TRUE

\* "text/sitemap" in (attrs.get("type") or "").lower()
IsSitemapType(attrs) == Contains(S_text_sitemap, Lower(OrEmpty(attrs.type)))

\* (attrs.get("name") or "").lower()
ParamName(attrs) == Lower(OrEmpty(attrs.name))

\* (attrs.get("value") or "").strip()
ParamValue(attrs) == Strip(OrEmpty(attrs.value))

\* the title with the fallback left out
NodeTitleNoFallback(name) == Strip(OrEmpty(name))

\* (self._cur_name or "Untitled").strip()
NodeTitle(name) ==
    IF OrEmpty(name) = <<>> THEN Strip(S_Untitled) ELSE Strip(OrEmpty(name))

\* the target with "or None" left out
NodeLocalKeepEmpty(loc) == Some(Strip(OrEmpty(loc)))

\* (self._cur_local or "").strip() or None
NodeLocal(loc) ==
    IF Strip(OrEmpty(loc)) = <<>> THEN None ELSE Some(Strip(OrEmpty(loc)))

\* children.insert(0, node) in place of children.append(node)
PrependChild(ns, parent, node) ==
    Append([ns EXCEPT ![parent].children = <<Len(ns) + 1>> \o @], node)

\* self._stack[-1].children.append(node): the arena with the node added
AppendChild(ns, parent, node) ==
    Append([ns EXCEPT ![parent].children = Append(@, Len(ns) + 1)], node)

\* a list-open that opens a level whether or not an entry was just closed
StackAfterUlOpenAlways(st, pending, last) ==
    IF pending /\ last # 0 THEN Append(st, last) ELSE Append(st, st[Len(st)])

\* if self._pending_push_on_ul and self._last_created is not None: append
StackAfterUlOpen(st, pending, last) ==
    IF pending /\ last # 0 THEN Append(st, last) ELSE st

\* a list-close that pops whatever the stack holds
StackAfterUlCloseUnguarded(st) ==
    IF Len(st) > 0 THEN SubSeq(st, 1, Len(st) - 1) ELSE st

\* if len(self._stack) > 1: self._stack.pop()
StackAfterUlClose(st) ==
    IF Len(st) > 1 THEN SubSeq(st, 1, Len(st) - 1) ELSE st

ParserInit ==
    /\ nodes = <<TocNode(S_ROOT, None)>>
    /\ stack = <<Root>>
    /\ in_object = FALSE
    /\ cur_name = None
    /\ cur_local = None
    /\ last_created = 0
    /\ pending_push_on_ul = FALSE
    /\ fed = <<>>

\* an accumulator that survives a sitemap object-open
KeepAccumulator(cur) == cur

\* _cur_name and _cur_local after a sitemap object-open
ResetAccumulator(cur) == None

HandleStartTag(tag, attrs) ==
    /\ fed' = Append(fed, StartMarker(tag, attrs))
    /\ IF tag = "object"
       THEN /\ IF IsSitemapType(attrs)
               THEN /\ in_object' = TRUE
                    /\ cur_name' = ResetAccumulator(cur_name)
                    /\ cur_local' = ResetAccumulator(cur_local)
               ELSE UNCHANGED <<in_object, cur_name, cur_local>>
            /\ UNCHANGED <<nodes, stack, last_created, pending_push_on_ul>>
       ELSE IF tag = "param" /\ in_object
       THEN /\ IF ParamName(attrs) = S_name
               THEN /\ cur_name' = Some(ParamValue(attrs))
                    /\ UNCHANGED cur_local
               ELSE IF ParamName(attrs) = S_local
               THEN /\ cur_local' = Some(ParamValue(attrs))
                    /\ UNCHANGED cur_name
               ELSE UNCHANGED <<cur_name, cur_local>>
            /\ UNCHANGED <<nodes, stack, in_object, last_created,
                           pending_push_on_ul>>
       ELSE IF tag = "ul"
       THEN /\ stack' = StackAfterUlOpen(stack, pending_push_on_ul, last_created)
            /\ pending_push_on_ul' =
                 IF pending_push_on_ul /\ last_created # 0
                 THEN FALSE ELSE pending_push_on_ul
            /\ UNCHANGED <<nodes, in_object, cur_name, cur_local, last_created>>
       ELSE UNCHANGED <<nodes, stack, in_object, cur_name, cur_local,
                        last_created, pending_push_on_ul>>

HandleEndTag(tag) ==
    /\ fed' = Append(fed, EndMarker(tag))
    /\ IF tag = "object" /\ in_object
       THEN /\ in_object' = FALSE
            /\ nodes' = AppendChild(nodes, stack[Len(stack)],
                                    TocNode(NodeTitle(cur_name), NodeLocal(cur_local)))
            /\ last_created' = Len(nodes) + 1
            /\ pending_push_on_ul' = TRUE
            /\ UNCHANGED <<stack, cur_name, cur_local>>
       ELSE IF tag = "ul"
       THEN /\ stack' = StackAfterUlClose(stack)
            /\ UNCHANGED <<nodes, in_object, cur_name, cur_local, last_created,
                           pending_push_on_ul>>
       ELSE UNCHANGED <<nodes, stack, in_object, cur_name, cur_local,
                        last_created, pending_push_on_ul>>

----------------------------------------------------------------------------
(* Paths: posixpath, as os.path is on the platform the viewer is checked   *)
(* on.                                                                     *)

RECURSIVE SplitFrom(_, _, _)
SplitFrom(s, sep, cur) ==
    IF s = <<>> THEN <<cur>>
    ELSE IF Head(s) = sep THEN <<cur>> \o SplitFrom(Tail(s), sep, <<>>)
    ELSE SplitFrom(Tail(s), sep, Append(cur, Head(s)))

\* s.split(sep)
Split(s, sep) == SplitFrom(s, sep, <<>>)

RECURSIVE JoinWith(_, _)
\* sep.join(parts)
JoinWith(parts, sep) ==
    IF parts = <<>> THEN <<>>
    ELSE IF Len(parts) = 1 THEN parts[1]
    ELSE parts[1] \o <<sep>> \o JoinWith(Tail(parts), sep)

S_dot == <<".">>
S_dotdot == <<".", ".">>

\* posixpath.join(a, b)
PathJoin(a, b) ==
    IF b # <<>> /\ Head(b) = "/" THEN b
    ELSE IF a = <<>> \/ a[Len(a)] = "/" THEN a \o b
    ELSE a \o <<"/">> \o b

\* the number of leading slashes posixpath.normpath keeps: 0, 1 or 2
InitialSlashes(path) ==
    IF ~StartsWith(path, <<"/">>) THEN 0
    ELSE IF StartsWith(path, <<"/", "/">>) /\ ~StartsWith(path, <<"/", "/", "/">>)
    THEN 2
    ELSE 1

RECURSIVE NormComps(_, _, _)
\* the loop of posixpath.normpath over path.split("/")
NormComps(comps, new, slashes) ==
    IF comps = <<>> THEN new
    ELSE LET comp == Head(comps) IN
         IF comp = <<>> \/ comp = S_dot
         THEN NormComps(Tail(comps), new, slashes)
         ELSE IF \/ comp # S_dotdot
                 \/ (slashes = 0 /\ new = <<>>)
                 \/ (new # <<>> /\ new[Len(new)] = S_dotdot)
         THEN NormComps(Tail(comps), Append(new, comp), slashes)
         ELSE IF new # <<>>
         THEN NormComps(Tail(comps), SubSeq(new, 1, Len(new) - 1), slashes)
         ELSE NormComps(Tail(comps), new, slashes)

\* posixpath.normpath(path)
NormPath(path) ==
    IF path = <<>> THEN S_dot
    ELSE LET slashes == InitialSlashes(path)
             joined == JoinWith(NormComps(Split(path, "/"), <<>>, slashes), "/")
             out == [i \in 1..slashes |-> "/"] \o joined
         IN IF out = <<>> THEN S_dot ELSE out

----------------------------------------------------------------------------
(* open_local *)

\* the character references html.unescape decodes, of those the targets use
Entities ==
    { [ref |-> <<"&","a","m","p",";">>, char |-> "&"],
      [ref |-> <<"&","#","4","6",";">>, char |-> "."],
      [ref |-> <<"&","#","3","5",";">>, char |-> "#"],
      [ref |-> <<"&","#","3","2",";">>, char |-> " "] }

RECURSIVE Unescape(_)
\* html.unescape(s): one pass, the replacement is not scanned again
Unescape(s) ==
    IF s = <<>> THEN <<>>
    ELSE IF \E e \in Entities : StartsWith(s, e.ref)
    THEN LET e == CHOOSE e \in Entities : StartsWith(s, e.ref)
         IN <<e.char>> \o Unescape(SubSeq(s, Len(e.ref) + 1, Len(s)))
    ELSE <<Head(s)>> \o Unescape(Tail(s))

\* unescape((local or "").strip())
CleanTarget(raw) == Unescape(Strip(OrEmpty(raw)))

IsLetter(c) ==
    \E i \in DOMAIN UpperChars : UpperChars[i] = c \/ LowerChars[i] = c

RECURSIVE LettersThenScheme(_)
LettersThenScheme(s) ==
    \/ StartsWith(s, <<":", "/", "/">>)
    \/ s # <<>> /\ IsLetter(Head(s)) /\ LettersThenScheme(Tail(s))

\* no target taken for an absolute reference
IsUrlNever(s) == FALSE

\* re.match(r"^[a-zA-Z]+://", s)
IsUrl(s) == s # <<>> /\ IsLetter(Head(s)) /\ LettersThenScheme(Tail(s))

\* the index of the first "#" of s, 0 when there is none
FirstHash(s) ==
    IF \E i \in DOMAIN s : s[i] = "#"
    THEN CHOOSE i \in DOMAIN s : s[i] = "#" /\ \A j \in 1..(i - 1) : s[j] # "#"
    ELSE 0

\* the target taken whole as the path
SplitFragmentNone(s) == [path |-> s, frag |-> <<>>]

\* path_part, frag = (local.split("#", 1) + [""])[:2]
SplitFragment(s) ==
    IF FirstHash(s) = 0
    THEN [path |-> s, frag |-> <<>>]
    ELSE [path |-> SubSeq(s, 1, FirstHash(s) - 1),
          frag |-> SubSeq(s, FirstHash(s) + 1, Len(s))]

\* s.replace("\\", "/")
ReplaceBackslash(s) == [i \in DOMAIN s |-> IF s[i] = "\\" THEN "/" ELSE s[i]]

\* the leading separators kept
LStripSlashKept(s) == s

RECURSIVE LStripSlash(_)
\* s.lstrip("/")
LStripSlash(s) ==
    IF s # <<>> /\ Head(s) = "/" THEN LStripSlash(Tail(s)) ELSE s

\* path_part.replace("\\", "/").lstrip("/")
PathPart(s) == LStripSlash(ReplaceBackslash(SplitFragment(s).path))

\* os.path.normpath(os.path.join(self.base_dir, path_part))
AbsPath(base, s) == NormPath(PathJoin(base, PathPart(s)))

\* the safety check left out
ContainedAlways(abs_path, base) == TRUE

\* os.path.normpath(abs_path).startswith(os.path.normpath(self.base_dir))
Contained(abs_path, base) == StartsWith(NormPath(abs_path), NormPath(base))

\* os.path.exists asked before the safety check has returned
ExistsAskedFirst(abs_path, base) == {abs_path}

\* the paths os.path.exists is asked about: none when the safety check returns
ExistsAsked(abs_path, base) ==
    IF Contained(abs_path, base) THEN {abs_path} ELSE {}

\* the files and directories of the machine: os.path.exists(p)
ExistingPaths ==
    { <<"/">>, <<"/","a">>, <<"/","a","/","a">>,
      <<"/","d">>, <<"/","d","/","a">>, <<"/","d","/","d","2">>,
      <<"/","d","/","d","2","/","a">>,
      <<"/","d","2">>, <<"/","d","2","/","a">>,
      <<"/","d","/","i","n","d","e","x",".","h","t","m","l">>,
      <<"/","d","/","s","e","a","r","c","h",".","h","t","m","l">> }

Digits == <<"0","1","2","3","4","5","6","7","8","9">>

N_page == <<"a">>
N_hhc == <<"x",".","h","h","c">>
N_HHC == <<"T",".","H","H","C">>
N_hhk == <<"x",".","h","h","k">>

\* what a run of hh.exe can leave in the directory it extracts to: the names
\* of the files, in the order os.listdir gives them
ExtractedNames ==
    << <<>>, <<N_page, N_hhk>>, <<N_hhc>>, <<N_hhk, N_HHC, N_hhc>>,
       <<N_page, N_hhc, N_hhk>> >>

\* the directory the n-th call of tempfile.mkdtemp hands out, a name that no
\* other call gives and no other directory has; the extraction that follows
\* leaves the files ExtractedNames[i] in it
TmpName(n, i) == <<"/", "t", Digits[n + 1], Digits[i + 1]>>

\* the temporary directories and the files extracted into them
TmpPaths ==
    UNION {{TmpName(n, i)} \cup
           {PathJoin(TmpName(n, i), ExtractedNames[i][j]) :
               j \in DOMAIN ExtractedNames[i]} :
           n \in 1..MaxTmp, i \in DOMAIN ExtractedNames}

Exists(p) == p \in ExistingPaths \/ p \in TmpPaths

NoUrl == [kind |-> "blank", path |-> <<>>, frag |-> <<>>, query |-> None]
FileUrl(p, frag) == [kind |-> "file", path |-> p, frag |-> frag, query |-> None]
ExternalUrl(s) == [kind |-> "external", path |-> s, frag |-> <<>>, query |-> None]
QueryUrl(p, query) == [kind |-> "file", path |-> p, frag |-> <<>>, query |-> Some(query)]
Warning(kind, p) == [kind |-> kind, path |-> p]

Bases ==
    { None, Some(<<"/","d">>), Some(<<"/","d","/">>),
      Some(<<"/","d","/","d","2">>) }

Segs == { S_dotdot, <<"a">>, <<"d","2">> }

RECURSIVE SegSeqs(_)
SegSeqs(n) ==
    IF n = 0 THEN {<<>>}
    ELSE SegSeqs(n - 1) \cup
         {Append(q, g) : q \in {r \in SegSeqs(n - 1) : Len(r) = n - 1}, g \in Segs}

Frags == { <<>>, <<"#","f">> }

ExtraTargets ==
    { <<>>,
      <<" ">>,
      <<" ","a"," ">>,
      <<"/","a">>,
      <<"\\","d","2","\\","a">>,
      <<"/","/","a">>,
      <<".","/","a">>,
      <<"d","2","/",".",".","/","a">>,
      <<".",".","/",".",".","/","a","/","a">>,
      <<"d","2","/",".",".","/",".",".","/","d","2","/","a">>,
      <<"a","#","f","#","g">>,
      <<"/">>,
      <<".",".","/","d","z">>,
      <<"\\","/","a","#","f">>,
      <<"h","t","t","p",":","/","/","x","#","f">>,
      <<"h","t","t","p",":","/","/","x","/","&","a","m","p",";">>,
      <<"#","f">>,
      <<"h","t","t","p",":","/","/","x">>,
      <<"f","i","l","e",":","/","/","/","a">>,
      <<"x",":","/","a">>,
      <<":","/","/","a">>,
      <<"&","a","m","p",";">>,
      <<"&","#","4","6",";","&","#","4","6",";","/","a">>,
      <<"a","&","#","3","5",";","f">>,
      <<"&","#","3","2",";">> }

Targets ==
    {Some(JoinWith(q, "/") \o f) : q \in SegSeqs(MaxSegs), f \in Frags}
        \cup {Some(t) : t \in ExtraTargets} \cup {None}

WindowInit ==
    /\ base_dir \in Bases
    /\ web = NoUrl
    /\ warnings = <<>>
    /\ existsLog = {}
    /\ local = None

\* open_local(raw) while self.base_dir is dir, called after os.path.exists
\* was asked about the paths asked; warnings and existsLog record what the
\* call did
OpenLocalIn(dir, raw, asked) ==
    /\ local' = raw
    /\ IF OrEmpty(dir) = <<>>
       THEN /\ UNCHANGED web
            /\ warnings' = <<>>
            /\ existsLog' = asked
       ELSE LET base == OrEmpty(dir)
                s == CleanTarget(raw)
                abs_path == AbsPath(base, s)
                frag == SplitFragment(s).frag
            IN IF s = <<>>
               THEN /\ UNCHANGED web
                    /\ warnings' = <<>>
                    /\ existsLog' = asked
               ELSE IF IsUrl(s)
               THEN /\ web' = ExternalUrl(s)
                    /\ warnings' = <<>>
                    /\ existsLog' = asked
               ELSE /\ existsLog' = asked \cup ExistsAsked(abs_path, base)
                    /\ IF ~Contained(abs_path, base)
                       THEN /\ warnings' = <<Warning("PathEscape", abs_path)>>
                            /\ UNCHANGED web
                       ELSE IF ~Exists(abs_path)
                       THEN /\ warnings' = <<Warning("TargetNotFound", abs_path)>>
                            /\ UNCHANGED web
                       ELSE /\ warnings' = <<>>
                            /\ web' = FileUrl(abs_path, frag)

\* open_local(raw) under the base directory of the window
OpenLocalFrom(raw, asked) ==
    /\ OpenLocalIn(base_dir, raw, asked)
    /\ UNCHANGED base_dir

\* open_local(raw) called on its own
OpenLocal(raw) == OpenLocalFrom(raw, {})

----------------------------------------------------------------------------
(* The parser fed an arbitrary marker stream *)

ParserIdle ==
    /\ ParserInit
    /\ todo = <<>>

WindowIdle ==
    /\ base_dir = None
    /\ web = NoUrl
    /\ warnings = <<>>
    /\ existsLog = {}
    /\ local = None

\* an empty search box, no archive asked for, no file read
OthersIdle ==
    /\ search_text = <<>>
    /\ chm = None
    /\ loaded = None
    /\ file_bytes = <<>>
    /\ read_text = None
    /\ tmp_made = 0

\* the models as MainWindow.__init__ makes them, and no sitemap file on disk
ModelsIdle ==
    /\ contents_model = <<>>
    /\ index_model = <<>>
    /\ hhc = <<>>
    /\ hhk = <<>>

Init ==
    /\ ParserIdle
    /\ WindowIdle
    /\ ModelsIdle
    /\ OthersIdle

\* streams of any markers up to MaxMarkers, of core markers up to MaxDeep
MayFeed(m) ==
    \/ Len(fed) < MaxMarkers
    \/ /\ Len(fed) < MaxDeep
       /\ m \in CoreMarkers
       /\ \A i \in DOMAIN fed : fed[i] \in CoreMarkers

StartTag ==
    \E m \in StartMarkers :
        /\ MayFeed(m)
        /\ HandleStartTag(m.tag, m.attrs)
        /\ UNCHANGED <<todo, wvars, mvars, evars>>

EndTag ==
    \E tag \in EndTags :
        /\ MayFeed(EndMarker(tag))
        /\ HandleEndTag(tag)
        /\ UNCHANGED <<todo, wvars, mvars, evars>>

Next == StartTag \/ EndTag

Spec == Init /\ [][Next]_vars

----------------------------------------------------------------------------
(* The parser fed a sitemap of N top-level entries with M children each *)

TopTitle(i) == <<"t", Digits[i + 1]>>
ChildTitle(i, j) == <<"c", Digits[i + 1], Digits[j + 1]>>

Entry(title) ==
    <<ObjectOpen(SitemapType), Param(<<"N","a","m","e">>, title), ObjectClose>>

RECURSIVE ChildEntries(_, _)
ChildEntries(i, m) ==
    IF m = 0 THEN <<>> ELSE ChildEntries(i, m - 1) \o Entry(ChildTitle(i, m))

RECURSIVE NestedStream(_, _)
NestedStream(n, m) ==
    IF n = 0 THEN <<>>
    ELSE NestedStream(n - 1, m) \o Entry(TopTitle(n)) \o <<ListOpen>>
             \o ChildEntries(n, m) \o <<ListClose>>

InitNest ==
    /\ ParserInit
    /\ \E n \in 0..MaxN, m \in 0..MaxM : todo = NestedStream(n, m)
    /\ WindowIdle
    /\ ModelsIdle
    /\ OthersIdle

FeedStart ==
    /\ todo # <<>>
    /\ Head(todo).kind = "start"
    /\ HandleStartTag(Head(todo).tag, Head(todo).attrs)
    /\ todo' = Tail(todo)
    /\ UNCHANGED <<wvars, mvars, evars>>

FeedEnd ==
    /\ todo # <<>>
    /\ Head(todo).kind = "end"
    /\ HandleEndTag(Head(todo).tag)
    /\ todo' = Tail(todo)
    /\ UNCHANGED <<wvars, mvars, evars>>

NextNest == FeedStart \/ FeedEnd

SpecNest == InitNest /\ [][NextNest]_vars

----------------------------------------------------------------------------
(* open_local called with arbitrary targets under a fixed base directory *)

InitOpen ==
    /\ ParserIdle
    /\ WindowInit
    /\ ModelsIdle
    /\ OthersIdle

CallOpenLocal ==
    \E raw \in Targets :
        /\ OpenLocal(raw)
        /\ UNCHANGED <<pvars, mvars, evars>>

NextOpen == CallOpenLocal

SpecOpen == InitOpen /\ [][NextOpen]_vars

----------------------------------------------------------------------------
(* parse_hh_file: a fresh parser fed the whole text of a file *)

\* the fields of a HtmlHelpParser after __init__
NewParser ==
    [nodes |-> <<TocNode(S_ROOT, None)>>, stack |-> <<Root>>,
     in_object |-> FALSE, cur_name |-> None, cur_local |-> None,
     last_created |-> 0, pending_push_on_ul |-> FALSE]

\* the fields of parser p after handle_starttag(tag, attrs)
AfterStartTag(p, tag, attrs) ==
    IF tag = "object"
    THEN IF IsSitemapType(attrs)
         THEN [p EXCEPT !.in_object = TRUE,
                        !.cur_name = ResetAccumulator(@),
                        !.cur_local = ResetAccumulator(@)]
         ELSE p
    ELSE IF tag = "param" /\ p.in_object
    THEN IF ParamName(attrs) = S_name
         THEN [p EXCEPT !.cur_name = Some(ParamValue(attrs))]
         ELSE IF ParamName(attrs) = S_local
         THEN [p EXCEPT !.cur_local = Some(ParamValue(attrs))]
         ELSE p
    ELSE IF tag = "ul"
    THEN [p EXCEPT
            !.stack = StackAfterUlOpen(p.stack, p.pending_push_on_ul, p.last_created),
            !.pending_push_on_ul =
                IF p.pending_push_on_ul /\ p.last_created # 0 THEN FALSE ELSE @]
    ELSE p

\* the fields of parser p after handle_endtag(tag)
AfterEndTag(p, tag) ==
    IF tag = "object" /\ p.in_object
    THEN [p EXCEPT
            !.in_object = FALSE,
            !.nodes = AppendChild(p.nodes, p.stack[Len(p.stack)],
                                  TocNode(NodeTitle(p.cur_name), NodeLocal(p.cur_local))),
            !.last_created = Len(p.nodes) + 1,
            !.pending_push_on_ul = TRUE]
    ELSE IF tag = "ul"
    THEN [p EXCEPT !.stack = StackAfterUlClose(p.stack)]
    ELSE p

\* p.feed(text): the handlers called for the markers of text in order
RECURSIVE Feed(_, _)
Feed(p, text) ==
    IF text = <<>> THEN p
    ELSE LET m == Head(text)
         IN Feed(IF m.kind = "start" THEN AfterStartTag(p, m.tag, m.attrs)
                 ELSE AfterEndTag(p, m.tag),
                 Tail(text))

\* parse_hh_file(path) for a file of the given text: the arena whose node 1
\* is the returned root
ParseHhFile(text) == Feed(NewParser, text).nodes

----------------------------------------------------------------------------
(* Sitemap files: a text is written from its entries in document order,    *)
(* each with a title, an optional target and a nesting depth.              *)

P_Name == <<"N","a","m","e">>
P_Local == <<"L","o","c","a","l">>

\* <OBJECT type="Text/Sitemap"><param name="Name" ...>[<param name="Local" ...>]</OBJECT>
EntryWith(title, loc) ==
    <<ObjectOpen(SitemapType), Param(P_Name, title)>>
        \o (IF loc = None THEN <<>> ELSE <<Param(P_Local, loc[1])>>)
        \o <<ObjectClose>>

RECURSIVE ListCloses(_)
ListCloses(n) == IF n <= 0 THEN <<>> ELSE Append(ListCloses(n - 1), ListClose)

\* the list markers between an entry at depth a and the next at depth b
Moves(a, b) == IF b = a + 1 THEN <<ListOpen>> ELSE ListCloses(a - b)

\* the markers of the first k entries
RECURSIVE EntriesText(_, _, _, _)
EntriesText(k, t, l, d) ==
    IF k = 0 THEN <<>>
    ELSE EntriesText(k - 1, t, l, d)
            \o Moves(IF k = 1 THEN 1 ELSE d[k - 1], d[k])
            \o EntryWith(t[k], l[k])

\* <UL> entries </UL>...</UL>
SitemapText(n, t, l, d) ==
    <<ListOpen>> \o EntriesText(n, t, l, d)
        \o ListCloses(IF n = 0 THEN 1 ELSE d[n])

\* the depths of n entries in document order: the first is at the top and an
\* entry lies at most one level below the entry before it
Shapes(n) ==
    {d \in [1..n -> 1..n] :
        /\ n > 0 => d[1] = 1
        /\ \A i \in 2..n : d[i] <= d[i - 1] + 1}

\* text is a sitemap of up to MaxEntries entries with the given titles and
\* targets
IsSitemapOf(text, titles, locals) ==
    \E n \in 0..MaxEntries :
        \E t \in [1..n -> titles], l \in [1..n -> locals], d \in Shapes(n) :
            text = SitemapText(n, t, l, d)

S_Banana == <<"B","a","n","a","n","a">>
S_apple == <<"a","p","p","l","e">>
S_Apple == <<"A","p","p","l","e">>
S_Cherry == <<"C","h","e","r","r","y">>
S_Guide == <<"G","u","i","d","e">>
S_Intro == <<"I","n","t","r","o">>

IndexTitles == {S_Banana, S_apple, S_Cherry, S_Apple}
IndexLocals == {None, Some(<<"x">>), Some(<<"y">>)}
ContentsTitles == {S_Guide, S_Intro}
ContentsLocals == {None, Some(<<"a">>), Some(<<"d","2">>)}
StartTitles == {S_Guide}

----------------------------------------------------------------------------
(* load_index, load_contents and open_start_page *)

\* the characters of the model in code point order
CodeOrder ==
    <<" ", "#", "&", ".", "/", "0","1","2","3","4","5","6","7","8","9", ":", ";">>
        \o UpperChars \o <<"\\", "_">> \o LowerChars

\* ord(c)
Ord(c) == CHOOSE i \in DOMAIN CodeOrder : CodeOrder[i] = c

\* a < b for Python strings
RECURSIVE StrLess(_, _)
StrLess(a, b) ==
    IF b = <<>> THEN FALSE
    ELSE IF a = <<>> THEN TRUE
    ELSE IF Head(a) = Head(b) THEN StrLess(Tail(a), Tail(b))
    ELSE Ord(Head(a)) < Ord(Head(b))

\* a QStandardItem: its text, its ROLE_LOCAL and ROLE_BREAD data, its icon and
\* its child rows
Item(text, loc, bread, icon, rows) ==
    [text |-> text, local |-> loc, bread |-> bread, icon |-> icon, rows |-> rows]

\* a walk that does not go below the node
WalkOwnEntry(ns, n) ==
    IF OrEmpty(ns[n].local) # <<>>
    THEN <<[title |-> ns[n].title, local |-> OrEmpty(ns[n].local)]>>
    ELSE <<>>

\* walk(n) of load_index: the (title, local) pairs of node n and of the nodes
\* below it, in the order they are appended to items
RECURSIVE Walk(_, _), WalkEach(_, _)
Walk(ns, n) ==
    (IF OrEmpty(ns[n].local) # <<>>
     THEN <<[title |-> ns[n].title, local |-> OrEmpty(ns[n].local)]>>
     ELSE <<>>)
        \o WalkEach(ns, ns[n].children)
WalkEach(ns, cs) ==
    IF cs = <<>> THEN <<>> ELSE Walk(ns, Head(cs)) \o WalkEach(ns, Tail(cs))

\* the sort key of an index entry with the letter case kept
SortKeyExact(x) == x.title

\* key=lambda x: x[0].lower()
SortKey(x) == Lower(x.title)

\* x put behind the entries of the sorted list whose key is not greater
RECURSIVE InsertSorted(_, _)
InsertSorted(sorted, x) ==
    IF sorted = <<>> THEN <<x>>
    ELSE LET last == sorted[Len(sorted)]
         IN IF StrLess(SortKey(x), SortKey(last))
            THEN Append(InsertSorted(SubSeq(sorted, 1, Len(sorted) - 1), x), last)
            ELSE Append(sorted, x)

\* items.sort(key=...): list.sort is stable
RECURSIVE SortItems(_)
SortItems(items) ==
    IF items = <<>> THEN <<>>
    ELSE InsertSorted(SortItems(SubSeq(items, 1, Len(items) - 1)), items[Len(items)])

\* the rows load_index leaves in index_model for a file of the given text
IndexRows(text) ==
    LET ns == ParseHhFile(text)
        items == SortItems(WalkEach(ns, ns[Root].children))
    IN [i \in DOMAIN items |->
            Item(items[i].title, items[i].local, items[i].title, "page", <<>>)]

\* the separator of breadcrumbs as the source file holds it: a blank, the
\* code points U+201A, U+00C4 and U+222B, and a blank; a code point outside
\* ASCII is written by its name
BreadSep == <<" ", "U+201A", "U+00C4", "U+222B", " ">>

\* sep.join(parts)
RECURSIVE JoinStr(_, _)
JoinStr(parts, sep) ==
    IF parts = <<>> THEN <<>>
    ELSE IF Len(parts) = 1 THEN parts[1]
    ELSE parts[1] \o sep \o JoinStr(Tail(parts), sep)

\* " > ".join(parent_path + [node.title]) with the separator of the source
Bread(parent_path, title) == JoinStr(Append(parent_path, title), BreadSep)

\* the children of a node in reverse order
ChildrenReversed(ns, n) ==
    [i \in DOMAIN ns[n].children |-> ns[n].children[Len(ns[n].children) + 1 - i]]

\* node.children, in the order _node_to_item appends their items
ChildrenOf(ns, n) == ns[n].children

\* _node_to_item(node, parent_path)
RECURSIVE NodeToItem(_, _, _)
NodeToItem(ns, n, parent_path) ==
    LET cs == ChildrenOf(ns, n)
    IN Item(ns[n].title,
            OrEmpty(ns[n].local),
            Bread(parent_path, ns[n].title),
            IF ns[n].children # <<>> THEN "book" ELSE "page",
            [i \in DOMAIN cs |->
                NodeToItem(ns, cs[i], Append(parent_path, ns[n].title))])

\* the rows load_contents leaves in contents_model for a file of the given text
ContentsRows(text) ==
    LET ns == ParseHhFile(text)
    IN [i \in DOMAIN ns[Root].children |-> NodeToItem(ns, ns[Root].children[i], <<>>)]

\* the first item wins even when it has no target
FirstLocalOfFirst(rows) ==
    IF rows = <<>> \/ rows[1].local = <<>> THEN None ELSE Some(rows[1].local)

\* _first_local_item(model): walk over the rows, None when no item has a target
RECURSIVE FirstLocalItem(_)
FirstLocalItem(rows) ==
    IF rows = <<>> THEN None
    ELSE LET it == Head(rows)
             v == IF it.local # <<>> THEN Some(it.local) ELSE FirstLocalItem(it.rows)
         IN IF OrEmpty(v) # <<>> THEN v ELSE FirstLocalItem(Tail(rows))

S_index_html == <<"i","n","d","e","x",".","h","t","m","l">>

\* load_index(hhk_path)
\* a model that keeps its rows
KeepRows(rows) == rows

\* model.removeRows(0, model.rowCount())
RemoveRows(rows) == <<>>

LoadIndex ==
    /\ index_model' = RemoveRows(index_model) \o IndexRows(hhk)
    /\ UNCHANGED <<contents_model, hhc, hhk, wvars>>

\* load_contents(hhc_path)
LoadContents ==
    /\ contents_model' = RemoveRows(contents_model) \o ContentsRows(hhc)
    /\ UNCHANGED <<index_model, hhc, hhk, wvars>>

\* open_start_page() while self.base_dir is dir and the contents model holds
\* rows, called after os.path.exists was asked about the paths asked
OpenStartPageIn(dir, rows, asked) ==
    IF OrEmpty(dir) = <<>>
    THEN /\ warnings' = <<>>
         /\ existsLog' = asked
         /\ UNCHANGED <<web, local>>
    ELSE LET index_html == PathJoin(OrEmpty(dir), S_index_html)
             first == FirstLocalItem(rows)
         IN IF Exists(index_html)
            THEN /\ web' = FileUrl(index_html, <<>>)
                 /\ warnings' = <<>>
                 /\ existsLog' = asked \cup {index_html}
                 /\ UNCHANGED local
            ELSE IF OrEmpty(first) # <<>>
            THEN OpenLocalIn(dir, first, asked \cup {index_html})
            ELSE /\ warnings' = <<>>
                 /\ existsLog' = asked \cup {index_html}
                 /\ UNCHANGED <<web, local>>

\* open_start_page()
OpenStartPage ==
    /\ OpenStartPageIn(base_dir, contents_model, {})
    /\ UNCHANGED base_dir
    /\ UNCHANGED mvars

----------------------------------------------------------------------------
(* load_index on the .hhk file of an extracted archive *)

InitIndex ==
    /\ ParserIdle
    /\ OthersIdle
    /\ WindowIdle
    /\ contents_model = <<>>
    /\ index_model = <<>>
    /\ hhc = <<>>
    /\ IsSitemapOf(hhk, IndexTitles, IndexLocals)

CallLoadIndex == LoadIndex /\ UNCHANGED <<pvars, evars>>

NextIndex == CallLoadIndex

SpecIndex == InitIndex /\ [][NextIndex]_vars

----------------------------------------------------------------------------
(* load_contents on the .hhc file of an extracted archive *)

InitContents ==
    /\ ParserIdle
    /\ OthersIdle
    /\ WindowIdle
    /\ contents_model = <<>>
    /\ index_model = <<>>
    /\ IsSitemapOf(hhc, ContentsTitles, ContentsLocals)
    /\ hhk = <<>>

CallLoadContents == LoadContents /\ UNCHANGED <<pvars, evars>>

NextContents == CallLoadContents

SpecContents == InitContents /\ [][NextContents]_vars

----------------------------------------------------------------------------
(* load_contents and open_start_page under a fixed base directory *)

InitStart ==
    /\ ParserIdle
    /\ OthersIdle
    /\ WindowInit
    /\ contents_model = <<>>
    /\ index_model = <<>>
    /\ IsSitemapOf(hhc, StartTitles, ContentsLocals)
    /\ hhk = <<>>

CallOpenStartPage == OpenStartPage /\ UNCHANGED <<pvars, evars>>

NextStart == CallLoadContents \/ CallOpenStartPage

SpecStart == InitStart /\ [][NextStart]_vars

----------------------------------------------------------------------------
(* open_sphinx_search on the text of the search box *)

S_search_html == <<"s","e","a","r","c","h",".","h","t","m","l">>

\* every white-space character of q replaced by its own "+"
PlusPerSpace(q) == [i \in DOMAIN q |-> IF IsSpace(q[i]) THEN "+" ELSE q[i]]

\* re.sub(r"\s+", "+", q)
RECURSIVE SubSpaces(_)
SubSpaces(q) ==
    IF q = <<>> THEN <<>>
    ELSE IF IsSpace(Head(q))
    THEN <<"+">> \o SubSpaces(LStrip(q))
    ELSE <<Head(q)>> \o SubSpaces(Tail(q))

\* open_sphinx_search()
OpenSphinxSearch ==
    /\ UNCHANGED <<base_dir, local>>
    /\ IF OrEmpty(base_dir) = <<>>
       THEN /\ UNCHANGED web
            /\ warnings' = <<>>
            /\ existsLog' = {}
       ELSE LET q == Strip(search_text')
                search_html == PathJoin(OrEmpty(base_dir), S_search_html)
            IN IF q = <<>>
               THEN /\ UNCHANGED web
                    /\ warnings' = <<>>
                    /\ existsLog' = {}
               ELSE /\ existsLog' = {search_html}
                    /\ IF ~Exists(search_html)
                       THEN /\ warnings' = <<Warning("SearchPageMissing", <<>>)>>
                            /\ UNCHANGED web
                       ELSE /\ warnings' = <<>>
                            /\ web' = QueryUrl(search_html, <<"q", "=">> \o SubSpaces(q))

QueryChars == {"a", " ", "\t"}

RECURSIVE QueriesOf(_)
QueriesOf(n) ==
    IF n = 0 THEN {<<>>}
    ELSE QueriesOf(n - 1) \cup
         {Append(q, c) : q \in {r \in QueriesOf(n - 1) : Len(r) = n - 1},
                         c \in QueryChars}

Queries == QueriesOf(MaxQuery)

InitSearch ==
    /\ ParserIdle
    /\ WindowInit
    /\ ModelsIdle
    /\ OthersIdle

\* the user types a query and presses return
CallOpenSphinxSearch ==
    \E q \in Queries :
        /\ search_text' = q
        /\ OpenSphinxSearch
        /\ UNCHANGED <<pvars, mvars, chm, loaded, file_bytes, read_text, tmp_made>>

NextSearch == CallOpenSphinxSearch

SpecSearch == InitSearch /\ [][NextSearch]_vars

----------------------------------------------------------------------------
(* _read_text_fallback: bytes are 0..255, a text is a sequence of code points *)

\* the number of bytes of the UTF-8 sequence that byte b starts, 0 for none
Utf8Len(b) ==
    IF b < 128 THEN 1
    ELSE IF b \in 194..223 THEN 2
    ELSE IF b \in 224..239 THEN 3
    ELSE IF b \in 240..244 THEN 4
    ELSE 0

\* the bytes that may follow lead byte b as byte number i of its sequence
Utf8Follows(b, i, c) ==
    IF i = 2 /\ b = 224 THEN c \in 160..191
    ELSE IF i = 2 /\ b = 237 THEN c \in 128..159
    ELSE IF i = 2 /\ b = 240 THEN c \in 144..191
    ELSE IF i = 2 /\ b = 244 THEN c \in 128..143
    ELSE c \in 128..191

\* how many of the bytes after the lead byte of bs continue its sequence
RECURSIVE Utf8Good(_, _)
Utf8Good(bs, i) ==
    IF i > Utf8Len(bs[1]) \/ i > Len(bs) THEN 0
    ELSE IF Utf8Follows(bs[1], i, bs[i]) THEN 1 + Utf8Good(bs, i + 1)
    ELSE 0

Utf8CodePoint(bs, n) ==
    IF n = 1 THEN bs[1]
    ELSE IF n = 2 THEN (bs[1] - 192) * 64 + (bs[2] - 128)
    ELSE IF n = 3 THEN (bs[1] - 224) * 4096 + (bs[2] - 128) * 64 + (bs[3] - 128)
    ELSE (bs[1] - 240) * 262144 + (bs[2] - 128) * 4096
           + (bs[3] - 128) * 64 + (bs[4] - 128)

\* bytes.decode("utf-8", errors): None when errors is strict and bs is not
\* UTF-8; under ignore the bytes that decode to nothing are dropped
RECURSIVE DecodeUtf8(_, _)
DecodeUtf8(bs, errors) ==
    IF bs = <<>> THEN Some(<<>>)
    ELSE LET n == Utf8Len(bs[1])
             k == Utf8Good(bs, 2)
         IN IF n > 0 /\ k = n - 1
            THEN LET rest == DecodeUtf8(SubSeq(bs, n + 1, Len(bs)), errors)
                 IN IF rest = None THEN None
                    ELSE Some(<<Utf8CodePoint(bs, n)>> \o rest[1])
            ELSE IF errors = "strict" THEN None
            ELSE DecodeUtf8(SubSeq(bs, 2 + k, Len(bs)), errors)

\* utf-8-sig as the file object decodes it: UTF-8 after a leading byte order
\* mark is dropped; a file that ends inside the byte order mark reads as
\* the empty text, the decoder still waiting for the rest of the mark
DecodeUtf8Sig(bs) ==
    IF Len(bs) < 3 /\ bs = SubSeq(<<239, 187, 191>>, 1, Len(bs))
    THEN Some(<<>>)
    ELSE IF Len(bs) >= 3 /\ SubSeq(bs, 1, 3) = <<239, 187, 191>>
    THEN DecodeUtf8(SubSeq(bs, 4, Len(bs)), "strict")
    ELSE DecodeUtf8(bs, "strict")

\* the code points of the bytes 128..159 in cp1252, 0 where it has none
Cp1252High ==
    << 8364, 0, 8218, 402, 8222, 8230, 8224, 8225,
       710, 8240, 352, 8249, 338, 0, 381, 0,
       0, 8216, 8217, 8220, 8221, 8226, 8211, 8212,
       732, 8482, 353, 8250, 339, 0, 382, 376 >>

DecodeCp1252(bs) ==
    IF \E i \in DOMAIN bs : bs[i] \in 128..159 /\ Cp1252High[bs[i] - 127] = 0
    THEN None
    ELSE Some([i \in DOMAIN bs |->
                 IF bs[i] \in 128..159 THEN Cp1252High[bs[i] - 127] ELSE bs[i]])

DecodeLatin1(bs) == Some(bs)

\* decoding of bs under encoding enc with errors="strict"
DecodeStrict(enc, bs) ==
    IF enc = "utf-8-sig" THEN DecodeUtf8Sig(bs)
    ELSE IF enc = "utf-8" THEN DecodeUtf8(bs, "strict")
    ELSE IF enc = "cp1252" THEN DecodeCp1252(bs)
    ELSE DecodeLatin1(bs)

\* what a file opened in text mode hands out for the decoded text t: every
\* line end (CR LF, CR or LF) becomes LF
RECURSIVE UniversalNewlines(_)
UniversalNewlines(t) ==
    IF t = <<>> THEN <<>>
    ELSE IF t[1] = 13
    THEN <<10>> \o UniversalNewlines(
                     IF Len(t) >= 2 /\ t[2] = 10 THEN SubSeq(t, 3, Len(t))
                     ELSE Tail(t))
    ELSE <<t[1]>> \o UniversalNewlines(Tail(t))

\* f.read() of open(path, "r", encoding=enc, errors="strict"), None when it raises
ReadStrict(enc, bs) ==
    IF DecodeStrict(enc, bs) = None THEN None
    ELSE Some(UniversalNewlines(DecodeStrict(enc, bs)[1]))

\* the loop with latin-1 tried before cp1252
ReadTextLatinFirst(bs) ==
    IF ReadStrict("utf-8-sig", bs) # None THEN ReadStrict("utf-8-sig", bs)[1]
    ELSE IF ReadStrict("utf-8", bs) # None THEN ReadStrict("utf-8", bs)[1]
    ELSE ReadStrict("latin-1", bs)[1]

\* _read_text_fallback(path) for a file holding the bytes bs
ReadTextFallback(bs) ==
    IF ReadStrict("utf-8-sig", bs) # None THEN ReadStrict("utf-8-sig", bs)[1]
    ELSE IF ReadStrict("utf-8", bs) # None THEN ReadStrict("utf-8", bs)[1]
    ELSE IF ReadStrict("cp1252", bs) # None THEN ReadStrict("cp1252", bs)[1]
    ELSE IF ReadStrict("latin-1", bs) # None THEN ReadStrict("latin-1", bs)[1]
    ELSE UniversalNewlines(DecodeUtf8(bs, "ignore")[1])

\* A, CR, LF, the three bytes of the byte order mark, a UTF-8 lead byte, a
\* byte cp1252 has no character for and one it maps above 255
FileByteValues == {65, 13, 10, 239, 187, 191, 195, 129, 128}

RECURSIVE FilesOf(_)
FilesOf(n) ==
    IF n = 0 THEN {<<>>}
    ELSE FilesOf(n - 1) \cup
         {Append(f, b) : f \in {g \in FilesOf(n - 1) : Len(g) = n - 1},
                         b \in FileByteValues}

InitRead ==
    /\ ParserIdle
    /\ WindowIdle
    /\ ModelsIdle
    /\ search_text = <<>>
    /\ chm = None
    /\ loaded = None
    /\ file_bytes \in FilesOf(MaxBytes)
    /\ read_text = None
    /\ tmp_made = 0

CallReadTextFallback ==
    /\ read_text' = Some(ReadTextFallback(file_bytes))
    /\ UNCHANGED <<pvars, wvars, mvars, search_text, chm, loaded, file_bytes, tmp_made>>

NextRead == CallReadTextFallback

SpecRead == InitRead /\ [][NextRead]_vars

----------------------------------------------------------------------------
(* load_from_chm_path: a session of loads and of navigation *)

\* the position of the last c in s, 0 when it has none
LastIndexOf(s, c) ==
    IF \E i \in DOMAIN s : s[i] = c
    THEN CHOOSE i \in DOMAIN s : s[i] = c /\ \A j \in (i + 1)..Len(s) : s[j] # c
    ELSE 0

RECURSIVE RStripSlash(_)
RStripSlash(s) ==
    IF s # <<>> /\ s[Len(s)] = "/" THEN RStripSlash(SubSeq(s, 1, Len(s) - 1)) ELSE s

\* os.path.dirname(p)
Dirname(p) ==
    LET head == SubSeq(p, 1, LastIndexOf(p, "/"))
    IN IF \A i \in DOMAIN head : head[i] = "/" THEN head ELSE RStripSlash(head)

\* os.path.basename(p)
Basename(p) == SubSeq(p, LastIndexOf(p, "/") + 1, Len(p))

\* os.path.splitext(name)[0], name holding no separator
Stem(name) ==
    LET dot == LastIndexOf(name, ".")
    IN IF dot > 0 /\ \E i \in 1..(dot - 1) : name[i] # "."
       THEN SubSeq(name, 1, dot - 1)
       ELSE name

EndsWith(s, e) == Len(e) <= Len(s) /\ SubSeq(s, Len(s) - Len(e) + 1, Len(s)) = e

S_hhc == <<".", "h", "h", "c">>
S_hhk == <<".", "h", "h", "k">>

\* the path of the file that lies beside the archive and ends in ext
SideCar(chm_path, ext) ==
    PathJoin(Dirname(chm_path), Stem(Basename(chm_path)) \o ext)

\* an archive on disk: its path, the text of the .hhc and of the .hhk file
\* beside it (None when there is none), whether hh.exe is missing ("none"),
\* exits in error ("fails") or runs ("ok"), and the files that os.listdir
\* finds in the temporary directory after it ran, each [name, text]
Archive(path, c, k, tool, listing) ==
    [path |-> path, hhc |-> c, hhk |-> k, tool |-> tool, listing |-> listing]

\* the place in ExtractedNames of the names of the files of listing
ListingId(listing) ==
    CHOOSE i \in DOMAIN ExtractedNames :
        ExtractedNames[i] = [j \in DOMAIN listing |-> listing[j].name]

\* the first file of any name
FindFirstAny(listing, ext) ==
    IF listing = <<>> THEN None ELSE Some(listing[1])

\* _find_first(folder, (ext,)) on the files listing of the folder: the file,
\* not its path, None when no name ends in ext
FindFirst(listing, ext) ==
    IF \E i \in DOMAIN listing : EndsWith(Lower(listing[i].name), ext)
    THEN Some(listing[CHOOSE i \in DOMAIN listing :
                  /\ EndsWith(Lower(listing[i].name), ext)
                  /\ \A j \in 1..(i - 1) : ~EndsWith(Lower(listing[j].name), ext)])
    ELSE None

\* an extractor that is taken to have run whatever happened
DecompileAlwaysOk(a) == TRUE

\* decompile_chm_windows(chm_path, tmp)
DecompileChmWindows(a) == a.tool = "ok"

\* the rest of load_from_chm_path once the contents file is known: dir is
\* the new base directory, c the text of the contents file, k the text of
\* the index file or None, asked the paths os.path.exists was asked about
LoadFound(a, dir, c, k, asked) ==
    /\ base_dir' = Some(dir)
    /\ hhc' = c
    /\ contents_model' = RemoveRows(contents_model) \o ContentsRows(c)
    /\ IF k # None
       THEN /\ hhk' = k[1]
            /\ index_model' = RemoveRows(index_model) \o IndexRows(k[1])
       ELSE /\ hhk' = <<>>
            /\ index_model' = RemoveRows(index_model)
    /\ OpenStartPageIn(Some(dir), RemoveRows(contents_model) \o ContentsRows(c), asked)
    /\ loaded' = Some(a)

\* load_from_chm_path gives up after the warning kind
LoadFails(kind, asked) ==
    /\ warnings' = <<Warning(kind, <<>>)>>
    /\ existsLog' = asked
    /\ UNCHANGED <<base_dir, web, local, mvars, loaded>>

\* load_from_chm_path(a.path): with no contents file beside the archive a
\* fresh temporary directory is made before the extraction is tried
LoadFromChmPath(a) ==
    /\ chm' = Some(a)
    /\ IF a.hhc # None
       THEN /\ LoadFound(a, Dirname(a.path), a.hhc[1], a.hhk,
                         {SideCar(a.path, S_hhc), SideCar(a.path, S_hhk)})
            /\ UNCHANGED tmp_made
       ELSE /\ tmp_made < MaxTmp
            /\ tmp_made' = tmp_made + 1
            /\ LET tmp == TmpName(tmp_made + 1, ListingId(a.listing))
                   hhc_found == FindFirst(a.listing, S_hhc)
                   hhk_found == FindFirst(a.listing, S_hhk)
               IN IF ~DecompileChmWindows(a)
                  THEN LoadFails("NoContents", {SideCar(a.path, S_hhc)})
                  ELSE IF hhc_found = None
                  THEN LoadFails("NoHhcFound", {SideCar(a.path, S_hhc)})
                  ELSE LoadFound(a, tmp, hhc_found[1].text,
                                 IF hhk_found = None THEN None
                                 ELSE Some(hhk_found[1].text),
                                 {SideCar(a.path, S_hhc)})

ChmPaths ==
    { <<"/","d","/","x",".","c","h","m">>,
      <<"/","d","/","d","2","/","x",".","c","h","m">>,
      <<"/","d","2","/","x",".","c","h","m">>,
      <<"x",".","c","h","m">> }

\* the archives that have no contents file beside them
PackedPaths == { <<"/","d","2","/","y",".","c","h","m">> }

\* contents files: one entry with a target, one entry without
ArchiveContents ==
    { SitemapText(1, <<S_Guide>>, <<Some(<<"a">>)>>, <<1>>),
      SitemapText(1, <<S_Intro>>, <<None>>, <<1>>) }

ArchiveIndexes ==
    { SitemapText(1, <<S_Cherry>>, <<Some(<<"a">>)>>, <<1>>) }

F_hhc == [name |-> N_hhc,
          text |-> SitemapText(1, <<S_Guide>>, <<Some(<<"a">>)>>, <<1>>)]
F_HHC == [name |-> N_HHC,
          text |-> SitemapText(1, <<S_Intro>>, <<None>>, <<1>>)]
F_hhk == [name |-> N_hhk,
          text |-> SitemapText(1, <<S_Banana>>, <<Some(<<"x">>)>>, <<1>>)]
F_page == [name |-> N_page, text |-> <<>>]

\* the file of the name
FileNamed(name) ==
    CASE name = N_hhc -> F_hhc
      [] name = N_HHC -> F_HHC
      [] name = N_hhk -> F_hhk
      [] OTHER -> F_page

\* what an extraction can leave in the temporary directory
Listings ==
    {[j \in DOMAIN ExtractedNames[i] |-> FileNamed(ExtractedNames[i][j])] :
        i \in DOMAIN ExtractedNames}

\* archives with a contents file beside them, and archives without
Archives ==
    {Archive(path, Some(c), k, "none", <<>>) :
        path \in ChmPaths, c \in ArchiveContents,
        k \in {None} \cup {Some(t) : t \in ArchiveIndexes}}
    \cup {Archive(path, None, None, "none", <<>>) : path \in PackedPaths}
    \cup {Archive(path, None, None, tool, listing) :
            path \in PackedPaths, tool \in {"fails", "ok"}, listing \in Listings}

InitSession ==
    /\ ParserIdle
    /\ WindowIdle
    /\ ModelsIdle
    /\ OthersIdle

CallLoadFromChmPath ==
    \E a \in Archives :
        /\ LoadFromChmPath(a)
        /\ UNCHANGED <<pvars, search_text, file_bytes, read_text>>

SessionTargets == {Some(<<"a">>), Some(<<".",".","/","a">>)}

\* the user follows a link of the page or picks an entry
CallNavigate ==
    \E raw \in SessionTargets :
        /\ OpenLocal(raw)
        /\ UNCHANGED <<pvars, mvars, evars>>

\* go_home()
GoHome ==
    /\ UNCHANGED <<base_dir, local>>
    /\ warnings' = <<>>
    /\ IF OrEmpty(base_dir) = <<>>
       THEN /\ existsLog' = {}
            /\ UNCHANGED web
       ELSE LET home == PathJoin(OrEmpty(base_dir), S_index_html)
            IN /\ existsLog' = {home}
               /\ IF Exists(home)
                  THEN web' = FileUrl(home, <<>>)
                  ELSE UNCHANGED web

\* the user picks Home in the toolbar
CallGoHome == GoHome /\ UNCHANGED <<pvars, mvars, evars>>

NextSession == CallLoadFromChmPath \/ CallNavigate \/ CallGoHome

SpecSession == InitSession /\ [][NextSession]_vars

----------------------------------------------------------------------------
(* Reading the marker stream and the paths, for the properties below *)

IsSitemapOpen(m) == m.kind = "start" /\ m.tag = "object" /\ IsSitemapType(m.attrs)
IsObjectOpen(m) == m.kind = "start" /\ m.tag = "object"
IsObjectClose(m) == m.kind = "end" /\ m.tag = "object"
IsListOpen(m) == m.kind = "start" /\ m.tag = "ul"
IsListClose(m) == m.kind = "end" /\ m.tag = "ul"
IsParamNamed(m, name) ==
    m.kind = "start" /\ m.tag = "param" /\ Lower(OrEmpty(m.attrs.name)) = name

\* the marker at position i of s closes a sitemap entry: an object-close with a
\* sitemap object-open before it and no object-close in between
IsEntryClose(s, i) ==
    /\ IsObjectClose(s[i])
    /\ \E j \in 1..(i - 1) :
          /\ IsSitemapOpen(s[j])
          /\ \A k \in (j + 1)..(i - 1) : ~IsObjectClose(s[k])

\* the position of the latest sitemap object-open of s, 0 when there is none
LastSitemapOpen(s) ==
    IF \E j \in DOMAIN s : IsSitemapOpen(s[j])
    THEN CHOOSE j \in DOMAIN s :
            IsSitemapOpen(s[j]) /\ \A k \in (j + 1)..Len(s) : ~IsSitemapOpen(s[k])
    ELSE 0

\* the value of the latest param called name after the latest sitemap
\* object-open of s, None when there is no such param
LastParamValue(s, name) ==
    LET from == LastSitemapOpen(s)
        at == {j \in (from + 1)..Len(s) : IsParamNamed(s[j], name)}
    IN IF from = 0 \/ at = {} THEN None
       ELSE Some(OrEmpty(s[CHOOSE j \in at : \A k \in at : k <= j].attrs.value))

RECURSIVE MatchScan(_, _, _)
MatchScan(s, i, depth) ==
    IF i = 0 THEN 0
    ELSE IF IsObjectOpen(s[i])
    THEN IF depth = 0 THEN i ELSE MatchScan(s, i - 1, depth - 1)
    ELSE IF IsObjectClose(s[i]) THEN MatchScan(s, i - 1, depth + 1)
    ELSE MatchScan(s, i - 1, depth)

\* the position of the object-open that the object-close ending s matches
\* under proper nesting of object elements, 0 when it matches none
MatchingOpen(s) == MatchScan(s, Len(s) - 1, 0)

\* the step delivers marker m
Delivers(m) == fed' = Append(fed, m)

\* the step closes a sitemap entry
ClosesEntry == Len(fed') = Len(fed) + 1 /\ IsEntryClose(fed', Len(fed'))

\* the names of the directories from the root down to path p
Components(p) == SelectSeq(Split(p, "/"), LAMBDA c : c # <<>>)

\* p is directory b or lies beneath it in the directory tree
IsWithin(p, b) ==
    /\ Len(Components(b)) <= Len(Components(p))
    /\ SubSeq(Components(p), 1, Len(Components(b))) = Components(b)

\* raw is a relative target and there is a base directory to resolve it in
IsRelativeTarget(base, raw) ==
    /\ OrEmpty(base) # <<>>
    /\ CleanTarget(raw) # <<>>
    /\ ~IsUrl(CleanTarget(raw))

\* the latest call was given a relative target under a base directory
RelativeCall == IsRelativeTarget(base_dir, local)

----------------------------------------------------------------------------
(* C1..C10 *)

\* C1: whatever open_local has opened as a local file is the base directory
\* itself or lies beneath it in the directory tree; a target resolving to a
\* parent or to a sibling of the base, whatever its name, is not opened.
C1_OpenedWithinBase ==
    web.kind = "file" => IsWithin(web.path, NormPath(OrEmpty(base_dir)))

\* C2: for a relative target open_local opens the resolved path, whose
\* normalized form has the normalized base directory as a string prefix, or it
\* opens nothing (the displayed URL stays as it was); it never opens another
\* path in place of an escaping one.
C2_PrefixOrNothing ==
    /\ [](web.kind = "file" =>
            StartsWith(NormPath(web.path), NormPath(OrEmpty(base_dir))))
    /\ [][IsRelativeTarget(base_dir, local') =>
            \/ web' = web
            \/ /\ web'.kind = "file"
               /\ web'.path = AbsPath(OrEmpty(base_dir), CleanTarget(local'))
               /\ StartsWith(NormPath(web'.path), NormPath(OrEmpty(base_dir)))]_vars

C2_Witness ==
    /\ RelativeCall
    /\ local = Some(<<"d","2","/",".",".","/","a">>)
    /\ base_dir = Some(<<"/","d","/">>)
    /\ web = FileUrl(<<"/","d","/","a">>, <<>>)

\* C3: when the resolved path of a relative target fails the containment
\* check, the call ends with the PathEscape warning and os.path.exists has
\* not been asked about any path; so for base /d/d2 and target ../../a/a.
C3_EscapeBeforeExists ==
    (RelativeCall /\ ~StartsWith(AbsPath(OrEmpty(base_dir), CleanTarget(local)),
                                 NormPath(OrEmpty(base_dir))))
        => /\ warnings = <<Warning("PathEscape",
                                   AbsPath(OrEmpty(base_dir), CleanTarget(local)))>>
           /\ existsLog = {}

C3_Witness ==
    /\ base_dir = Some(<<"/","d","/","d","2">>)
    /\ local = Some(<<".",".","/",".",".","/","a","/","a">>)
    /\ warnings = <<Warning("PathEscape", <<"/","a","/","a">>)>>
    /\ <<"/","a","/","a">> \in ExistingPaths
    /\ existsLog = {}

\* C4: once the stream of n top-level entries, each followed by a list-open,
\* m entries and a list-close, is parsed, the root has exactly the n entries
\* as children in input order, each with exactly its m entries as children in
\* input order, and there are no other nodes.
C4_NestedShape ==
    \A n \in 0..MaxN, m \in 0..MaxM :
        (todo = <<>> /\ fed = NestedStream(n, m)) =>
            /\ Len(nodes) = 1 + n + n * m
            /\ Len(nodes[Root].children) = n
            /\ \A i \in 1..n :
                 LET top == nodes[nodes[Root].children[i]]
                 IN /\ top.title = TopTitle(i)
                    /\ Len(top.children) = m
                    /\ \A j \in 1..m :
                         /\ nodes[top.children[j]].title = ChildTitle(i, j)
                         /\ nodes[top.children[j]].children = <<>>

C4_Witness ==
    /\ todo = <<>>
    /\ fed = NestedStream(2, 2)
    /\ Len(nodes[Root].children) = 2
    /\ Len(nodes[nodes[Root].children[2]].children) = 2

\* the list-open about to be delivered after stream s immediately follows an
\* entry close: no list-open or list-close lies between that close and it
FollowsEntryClose(s) ==
    \E i \in DOMAIN s :
        /\ IsEntryClose(s, i)
        /\ \A k \in (i + 1)..Len(s) : ~IsListOpen(s[k]) /\ ~IsListClose(s[k])

\* C5: a list-open pushes the just-closed entry when it immediately follows
\* an entry close, and leaves the container stack unchanged in every other
\* position, also after a list-close that followed an entry close.
C5_ListOpenOnlyAfterEntryClose ==
    [][Delivers(ListOpen) =>
          IF FollowsEntryClose(fed)
          THEN stack' = Append(stack, Len(nodes))
          ELSE stack' = stack]_vars

\* C6: while the latest list-open of the stream was preceded by no entry
\* close, the container stack is [root] and every entry closed so far is a
\* child of the root.
C6_OrphanListOpen ==
    \A i \in DOMAIN fed :
        ( /\ IsListOpen(fed[i])
          /\ \A k \in 1..(i - 1) : ~IsEntryClose(fed, k)
          /\ \A k \in (i + 1)..Len(fed) : ~IsListOpen(fed[k]) )
        => /\ stack = <<Root>>
           /\ nodes[Root].children = [k \in 1..(Len(nodes) - 1) |-> k + 1]

C6_Witness ==
    /\ Len(fed) = 4
    /\ IsListOpen(fed[1])
    /\ IsEntryClose(fed, 4)
    /\ \A k \in 2..4 : ~IsListOpen(fed[k])
    /\ nodes[Root].children = <<2>>

\* C7: the container stack is never empty and its bottom is the root; a
\* list-close pops one level when the stack holds more than the root and
\* changes nothing when only the root remains.
C7_NeverBelowRoot ==
    /\ [](stack # <<>> /\ stack[1] = Root)
    /\ [][Delivers(ListClose) =>
            stack' = IF Len(stack) > 1 THEN SubSeq(stack, 1, Len(stack) - 1)
                     ELSE stack]_vars

C7_Witness ==
    /\ Len(fed) = 4
    /\ IsEntryClose(fed, 2)
    /\ IsListOpen(fed[3])
    /\ IsListClose(fed[4])
    /\ stack = <<Root>>

\* the title the entry being closed must get, from the params of the stream
ExpectedTitle(s) ==
    IF Strip(OrEmpty(LastParamValue(s, S_name))) = <<>>
    THEN S_Untitled
    ELSE Strip(OrEmpty(LastParamValue(s, S_name)))

\* C8: no node has an empty title; an entry closed without a Name param, or
\* with a Name value that is empty once trimmed, is titled "Untitled", and
\* any other entry is titled with its trimmed Name value.
C8_TitleFallback ==
    /\ [](\A i \in 2..Len(nodes) : nodes[i].title # <<>>)
    /\ [][ClosesEntry =>
            /\ Len(nodes') = Len(nodes) + 1
            /\ nodes'[Len(nodes')].title = ExpectedTitle(fed)]_vars

C8_Witness ==
    /\ Len(nodes) = 3
    /\ ~in_object
    /\ IsEntryClose(fed, Len(fed))
    /\ nodes[2].title = <<"b">>
    /\ LastParamValue(fed, S_name) = None
    /\ nodes[3].title = S_Untitled

\* the target the entry being closed must get, from the params of the stream
ExpectedLocal(s) ==
    IF Strip(OrEmpty(LastParamValue(s, S_local))) = <<>>
    THEN None
    ELSE Some(Strip(OrEmpty(LastParamValue(s, S_local))))

\* C9: an entry close appends exactly one node, as the last child of the
\* container on top of the stack, and changes no other node; the node's
\* target is None exactly when the entry had no Local param or one that is
\* empty once trimmed, and no node holds an empty-string target.
C9_AppendToCurrent ==
    /\ [](\A i \in DOMAIN nodes : nodes[i].local # Some(<<>>))
    /\ [][ClosesEntry =>
            /\ Len(nodes') = Len(nodes) + 1
            /\ nodes'[Len(nodes')].children = <<>>
            /\ nodes'[Len(nodes')].local = ExpectedLocal(fed)
            /\ \A i \in DOMAIN nodes :
                 /\ nodes'[i].title = nodes[i].title
                 /\ nodes'[i].local = nodes[i].local
                 /\ nodes'[i].children =
                      IF i = stack[Len(stack)]
                      THEN Append(nodes[i].children, Len(nodes) + 1)
                      ELSE nodes[i].children]_vars

C9_Witness ==
    /\ Len(nodes) = 3
    /\ stack = <<Root, 2>>
    /\ nodes[2].children = <<3>>
    /\ nodes[Root].children = <<2>>
    /\ nodes[2].local = Some(<<"x">>)
    /\ nodes[3].local = None
    /\ LastParamValue(fed, S_local) = None
    /\ IsEntryClose(fed, Len(fed))

\* C10: a node is created only by the object-close that matches the open of
\* the sitemap entry it is made from; an entry whose own object-close has not
\* come contributes no node, whatever markers followed its open.
C10_UnterminatedNoNode ==
    [][Len(nodes') > Len(nodes) =>
          /\ IsObjectClose(fed'[Len(fed')])
          /\ MatchingOpen(fed') = LastSitemapOpen(fed)]_vars

----------------------------------------------------------------------------
(* C11 *)

\* marker m is an object-open whose type attribute names the sitemap media type
OpensSitemapObject(m) ==
    /\ m.kind = "start" /\ m.tag = "object"
    /\ Contains(S_text_sitemap, Lower(OrEmpty(m.attrs.type)))

IsParam(m) == m.kind = "start" /\ m.tag = "param"

\* the object elements open at the end of s under proper nesting, outermost
\* first: TRUE for a sitemap object, FALSE for an object of another type
RECURSIVE OpenObjects(_)
OpenObjects(s) ==
    IF s = <<>> THEN <<>>
    ELSE LET before == OpenObjects(SubSeq(s, 1, Len(s) - 1))
             m == s[Len(s)]
         IN IF IsObjectOpen(m) THEN Append(before, OpensSitemapObject(m))
            ELSE IF IsObjectClose(m) /\ before # <<>>
            THEN SubSeq(before, 1, Len(before) - 1)
            ELSE before

\* a sitemap entry is open at the end of s
EntryOpen(s) == \E i \in DOMAIN OpenObjects(s) : OpenObjects(s)[i]

\* marker m, delivered after s, is one the parser has to ignore
IsIgnored(s, m) ==
    \/ IsParam(m) /\ ~EntryOpen(s)
    \/ IsParam(m) /\ Lower(OrEmpty(m.attrs.name)) \notin {S_name, S_local}
    \/ IsObjectOpen(m) /\ ~OpensSitemapObject(m) /\ ~EntryOpen(s)
    \/ IsObjectClose(m) /\ ~EntryOpen(s)

\* C11: a param delivered while no sitemap entry is open, a param named
\* neither name nor local (letter case ignored), and the open or close of an
\* object while no sitemap entry is open leave the tree, the accumulated
\* title and target and the entry flag as they are; an entry begins only
\* with an object-open of the sitemap type
C11_OnlySitemapEntriesCollect ==
    [][ Len(fed') = Len(fed) + 1 =>
          LET m == fed'[Len(fed')]
          IN /\ IsIgnored(fed, m) =>
                    UNCHANGED <<nodes, cur_name, cur_local, in_object>>
             /\ (in_object' /\ ~in_object) => OpensSitemapObject(m) ]_vars

\* an object of another type with a Name param inside it, then a Local param
\* outside any object: nothing was collected and no node was made
C11_Witness ==
    /\ fed = <<ObjectOpen(OtherType), Param(<<"N","a","m","e">>, <<"b">>),
               ObjectClose, Param(<<"L","o","c","a","l">>, <<"x"," ">>)>>
    /\ Len(nodes) = 1
    /\ cur_name = None /\ cur_local = None
    /\ ~in_object

----------------------------------------------------------------------------
(* C12, C13 *)

\* the nodes of the arena below the root that have a non-empty target
TargetedNodes(ns) == {i \in 2..Len(ns) : OrEmpty(ns[i].local) # <<>>}

\* the rows of the index that show title t with target l
RowsShowing(rows, t, l) == {i \in DOMAIN rows : rows[i].text = t /\ rows[i].local = l}

\* the index rows hold one entry for each node with a target, and no other
HoldsEveryTarget(rows, ns) ==
    /\ Len(rows) = Cardinality(TargetedNodes(ns))
    /\ \A n \in TargetedNodes(ns) :
          Cardinality(RowsShowing(rows, ns[n].title, OrEmpty(ns[n].local)))
            = Cardinality({k \in TargetedNodes(ns) :
                              /\ ns[k].title = ns[n].title
                              /\ ns[k].local = ns[n].local})

\* C12: after load_index the index holds exactly one (title, target) row for
\* every node of the parsed tree that has a non-empty target, at any depth
\* and whatever its ancestors hold, and no row for a node without one; nodes
\* with equal titles each keep their row
C12_OneRowPerTarget ==
    [][ HoldsEveryTarget(index_model', ParseHhFile(hhk)) ]_vars

\* a node without a target above a node with one, and two rows of one title
\* that lead to different targets
C12_Witness ==
    LET ns == ParseHhFile(hhk)
    IN /\ Len(ns) = 4
       /\ ns[2].local = None /\ ns[2].children = <<3>>
       /\ Len(index_model) = 2
       /\ index_model[1].text = index_model[2].text
       /\ index_model[1].local # index_model[2].local

\* the nodes of the subtrees of cs in depth-first pre-order
RECURSIVE PreOrder(_, _)
PreOrder(ns, cs) ==
    IF cs = <<>> THEN <<>>
    ELSE <<Head(cs)>> \o PreOrder(ns, ns[Head(cs)].children) \o PreOrder(ns, Tail(cs))

\* the titles, of those with the given key, of the nodes with a target in
\* pre-order
RECURSIVE TitlesInOrder(_, _, _)
TitlesInOrder(ns, order, key) ==
    IF order = <<>> THEN <<>>
    ELSE (IF OrEmpty(ns[Head(order)].local) # <<>> /\ Lower(ns[Head(order)].title) = key
          THEN <<ns[Head(order)].title>> ELSE <<>>)
            \o TitlesInOrder(ns, Tail(order), key)

\* the texts of the rows whose lower-cased text is key, in row order
RECURSIVE TextsWithKey(_, _)
TextsWithKey(rows, key) ==
    IF rows = <<>> THEN <<>>
    ELSE (IF Lower(Head(rows).text) = key THEN <<Head(rows).text>> ELSE <<>>)
            \o TextsWithKey(Tail(rows), key)

SortedStable(rows, ns) ==
    /\ \A i, j \in DOMAIN rows :
          i < j => ~StrLess(Lower(rows[j].text), Lower(rows[i].text))
    /\ \A i \in DOMAIN rows :
          TextsWithKey(rows, Lower(rows[i].text))
            = TitlesInOrder(ns, PreOrder(ns, ns[Root].children), Lower(rows[i].text))

\* C13: after load_index the rows are in ascending order of their lower-cased
\* titles, compared code point by code point, whatever the nesting of the
\* source; rows whose titles are equal when letter case is ignored stand in
\* the order a depth-first pre-order walk of the tree meets their nodes
C13_SortedIgnoringCase ==
    [][ SortedStable(index_model', ParseHhFile(hhk)) ]_vars

\* Banana above a nested apple, then Apple: the index reads apple, Apple, Banana
C13_Witness ==
    LET ns == ParseHhFile(hhk)
    IN /\ Len(ns) = 4
       /\ ns[2].title = S_Banana /\ ns[2].children = <<3>>
       /\ ns[3].title = S_apple /\ ns[4].title = S_Apple
       /\ Len(index_model) = 3
       /\ index_model[1].text = S_apple
       /\ index_model[2].text = S_Apple
       /\ index_model[3].text = S_Banana

----------------------------------------------------------------------------
(* C14, C15 *)

\* the items rows present the nodes cs of the arena, one for one and in order,
\* and so do the rows below each item for the children of its node
RECURSIVE Mirrors(_, _, _)
Mirrors(rows, ns, cs) ==
    /\ Len(rows) = Len(cs)
    /\ \A i \in DOMAIN rows :
          LET node == ns[cs[i]]
          IN /\ rows[i].text = node.title
             /\ rows[i].local = (IF node.local = None THEN <<>> ELSE node.local[1])
             /\ rows[i].icon \in {"book", "page"}
             /\ (rows[i].icon = "book") <=> (node.children # <<>>)
             /\ Mirrors(rows[i].rows, ns, node.children)

\* C14: after load_contents the presentation tree has the shape of the parsed
\* tree below its root: one item per node, children in the same order, each
\* item with its node's title and raw target (empty when the node has none),
\* and the container icon exactly when the node has children
C14_SameShape ==
    [][ LET ns == ParseHhFile(hhc)
        IN Mirrors(contents_model', ns, ns[Root].children) ]_vars

\* a container with two children of different targets, then a plain page
C14_Witness ==
    /\ Len(contents_model) = 1
    /\ contents_model[1].icon = "book"
    /\ contents_model[1].text = S_Guide
    /\ Len(contents_model[1].rows) = 2
    /\ contents_model[1].rows[1].local = <<"a">>
    /\ contents_model[1].rows[1].icon = "page"
    /\ contents_model[1].rows[2].local = <<"d","2">>
    /\ contents_model[1].rows[2].text = S_Intro

\* the separator the breadcrumb is specified with: a blank, the code point
\* U+203A (single right-pointing angle quotation mark) and a blank
CrumbSep == <<" ", "U+203A", " ">>

\* every item of rows, below the titles of path, stores the titles of path
\* and its own joined by the specified separator, and so on below it
RECURSIVE CrumbsFollowPath(_, _)
CrumbsFollowPath(rows, path) ==
    \A i \in DOMAIN rows :
        /\ rows[i].bread = JoinStr(Append(path, rows[i].text), CrumbSep)
        /\ CrumbsFollowPath(rows[i].rows, Append(path, rows[i].text))

\* C15: after load_contents the breadcrumb of every item, at any depth, is
\* the titles from its top-level ancestor down to itself, in that order,
\* joined by " > " written with U+203A; the root is no part of it
C15_BreadcrumbPath ==
    [][ CrumbsFollowPath(contents_model', <<>>) ]_vars

----------------------------------------------------------------------------
(* C16 *)

\* the targets of the items of rows in depth-first pre-order
RECURSIVE LocalsInOrder(_)
LocalsInOrder(rows) ==
    IF rows = <<>> THEN <<>>
    ELSE <<Head(rows).local>> \o LocalsInOrder(Head(rows).rows)
            \o LocalsInOrder(Tail(rows))

\* the first non-empty target in pre-order, None when there is none
FirstTarget(rows) ==
    LET ls == SelectSeq(LocalsInOrder(rows), LAMBDA l : l # <<>>)
    IN IF ls = <<>> THEN None ELSE Some(ls[1])

\* the step shows what open_start_page has to show
StartPageShown ==
    IF OrEmpty(base_dir) = <<>>
    THEN web' = web /\ warnings' = <<>>
    ELSE LET base == OrEmpty(base_dir)
             index_html == PathJoin(base, S_index_html)
             first == FirstTarget(contents_model)
         IN IF Exists(index_html)
            THEN web' = FileUrl(index_html, <<>>) /\ warnings' = <<>>
            ELSE IF first = None
            THEN web' = web /\ warnings' = <<>> /\ local' = local
            ELSE LET file == NormPath(PathJoin(base, first[1]))
                 IN /\ local' = first
                    /\ IF Exists(file)
                       THEN web' = FileUrl(file, <<>>) /\ warnings' = <<>>
                       ELSE web' = web /\ warnings' = <<Warning("TargetNotFound", file)>>

\* C16: open_start_page shows <base>/index.html whenever that file exists;
\* otherwise it calls open_local on the target of the first item, in
\* depth-first pre-order of the contents tree, that has a non-empty target;
\* when no item has one, or no base directory is set, it opens nothing
C16_StartPage ==
    [][ contents_model' = contents_model => StartPageShown ]_vars

\* no index.html under /d/d2; the first top-level item has no target, its
\* child has target a and the second top-level item has target d2: a is open
C16_Witness ==
    /\ base_dir = Some(<<"/","d","/","d","2">>)
    /\ Len(contents_model) = 2
    /\ contents_model[1].local = <<>>
    /\ Len(contents_model[1].rows) = 1
    /\ contents_model[1].rows[1].local = <<"a">>
    /\ contents_model[2].local = <<"d","2">>
    /\ local = Some(<<"a">>)
    /\ web = FileUrl(<<"/","d","/","d","2","/","a">>, <<>>)

----------------------------------------------------------------------------
(* C17..C20 *)

\* the positions of s that hold "#"
HashesOf(s) == {i \in DOMAIN s : s[i] = "#"}

\* the position of the first "#" of s, Len(s) + 1 when s has none
HashAt(s) ==
    IF HashesOf(s) = {} THEN Len(s) + 1
    ELSE CHOOSE i \in HashesOf(s) : \A j \in HashesOf(s) : i <= j

\* what stands before the first "#" of s, and what stands after it
BeforeHash(s) == SubSeq(s, 1, HashAt(s) - 1)
AfterHash(s) == SubSeq(s, HashAt(s) + 1, Len(s))

IsSeparator(c) == c = "/" \/ c = "\\"

\* s without the separators it begins with
RECURSIVE WithoutLeadingSeparators(_)
WithoutLeadingSeparators(s) ==
    IF s # <<>> /\ IsSeparator(Head(s)) THEN WithoutLeadingSeparators(Tail(s)) ELSE s

\* the file the path before the "#" of target s names beneath base
FileBeneath(base, s) ==
    NormPath(PathJoin(base,
        ReplaceBackslash(WithoutLeadingSeparators(BeforeHash(s)))))

\* C17: a call with a relative target whose path, the part before the first
\* "#", names an existing file inside the base directory opens exactly that
\* file, without a warning, with the fragment set to everything after the
\* first "#": the empty fragment when the target holds no "#"
C17_FragmentAfterFirstHash ==
    [][ IsRelativeTarget(base_dir, local') =>
          \A s \in {CleanTarget(local')} :
              \A file \in {FileBeneath(OrEmpty(base_dir), s)} :
                  (Exists(file) /\ IsWithin(file, NormPath(OrEmpty(base_dir)))) =>
                      /\ web' = FileUrl(file, AfterHash(s))
                      /\ warnings' = <<>> ]_vars

\* a#f#g under /d: file /d/a is open at fragment f#g
C17_Witness ==
    /\ base_dir = Some(<<"/","d">>)
    /\ local = Some(<<"a","#","f","#","g">>)
    /\ web = FileUrl(<<"/","d","/","a">>, <<"f","#","g">>)
    /\ warnings = <<>>

\* s begins with one or more letters followed by "://"
HasScheme(s) ==
    \E k \in 1..Len(s) :
        /\ \A i \in 1..k : IsLetter(s[i])
        /\ Len(s) >= k + 3
        /\ SubSeq(s, k + 1, k + 3) = <<":", "/", "/">>

\* C18: with a base directory set, a call whose target, trimmed and decoded,
\* begins with scheme:// hands that whole target to the renderer as an
\* external reference: nothing is split off at a "#", os.path.exists is not
\* asked, and no warning is raised
C18_SchemePassthrough ==
    [][ (OrEmpty(base_dir) # <<>> /\ HasScheme(CleanTarget(local'))) =>
          /\ web' = ExternalUrl(CleanTarget(local'))
          /\ warnings' = <<>>
          /\ existsLog' = {} ]_vars

\* http://x#f went to the renderer whole
C18_Witness ==
    /\ base_dir = Some(<<"/","d">>)
    /\ local = Some(<<"h","t","t","p",":","/","/","x","#","f">>)
    /\ web = ExternalUrl(<<"h","t","t","p",":","/","/","x","#","f">>)
    /\ warnings = <<>>
    /\ existsLog = {}

\* raw is empty once its entities are decoded and the result is trimmed
EmptyOnceDecoded(raw) == Strip(Unescape(OrEmpty(raw))) = <<>>

\* C19: a call whose raw target is empty after its HTML entities are decoded
\* and the surrounding whitespace is then trimmed, a target of entity-encoded
\* whitespace included, does nothing: the document stays, no warning is
\* raised and os.path.exists is not asked
C19_EmptyTargetNoOp ==
    [][ (OrEmpty(base_dir) # <<>> /\ EmptyOnceDecoded(local')) =>
          /\ web' = web
          /\ warnings' = <<>>
          /\ existsLog' = {} ]_vars

\* C20: a call with a relative target that begins with one or more
\* separators (/ or \) resolves the file the target without them resolves:
\* the rest of the path joined beneath the base directory; it is this file
\* that is opened or named in the warning, never the absolute path
C20_LeadingSeparators ==
    [][ (/\ IsRelativeTarget(base_dir, local')
         /\ IsSeparator(Head(CleanTarget(local')))) =>
          LET base == OrEmpty(base_dir)
              s == CleanTarget(local')
              file == FileBeneath(base, s)
          IN /\ AbsPath(base, s) = AbsPath(base, WithoutLeadingSeparators(s))
             /\ file = NormPath(base \o <<"/">> \o
                           ReplaceBackslash(WithoutLeadingSeparators(BeforeHash(s))))
             /\ IF warnings' = <<>>
                THEN web' = FileUrl(file, AfterHash(s))
                ELSE /\ Len(warnings') = 1
                     /\ warnings'[1].path = file
                     /\ web' = web ]_vars

\* \d2\a under /d: file /d/d2/a is open, /d2/a is not
C20_Witness ==
    /\ base_dir = Some(<<"/","d">>)
    /\ local = Some(<<"\\","d","2","\\","a">>)
    /\ web = FileUrl(<<"/","d","/","d","2","/","a">>, <<>>)
    /\ warnings = <<>>

----------------------------------------------------------------------------
(* C21 *)

\* C21: a call of open_local that raises a warning leaves the displayed
\* document as it was and raises exactly one; its kind is PathEscape when the
\* resolved path lies outside the base directory and TargetNotFound when it
\* lies inside it and does not exist
C21_RejectionKinds ==
    [][ (IsRelativeTarget(base_dir, local') /\ warnings' # <<>>) =>
          \A file \in {AbsPath(OrEmpty(base_dir), CleanTarget(local'))} :
              /\ web' = web
              /\ Len(warnings') = 1
              /\ warnings'[1].path = file
              /\ IF IsWithin(file, NormPath(OrEmpty(base_dir)))
                 THEN warnings'[1].kind = "TargetNotFound" /\ ~Exists(file)
                 ELSE warnings'[1].kind = "PathEscape" ]_vars

----------------------------------------------------------------------------
(* C27 *)

RECURSIVE ListScan(_, _, _)
ListScan(s, i, depth) ==
    IF i = 0 THEN 0
    ELSE IF IsListOpen(s[i])
    THEN IF depth = 0 THEN i ELSE ListScan(s, i - 1, depth - 1)
    ELSE IF IsListClose(s[i]) THEN ListScan(s, i - 1, depth + 1)
    ELSE ListScan(s, i - 1, depth)

\* the position of the list-open that the list-close ending s matches under
\* proper nesting of lists, 0 when it matches none
MatchingListOpen(s) == ListScan(s, Len(s) - 1, 0)

\* the container stack of a parser that was delivered the first k markers of s
StackAfter(s, k) == Feed(NewParser, SubSeq(s, 1, k)).stack

\* C27: a list-close leaves the container stack as it was just
\* before the list-open it matches, also when that list-open was a no-op
C27_ListsBalanced ==
    [][ Delivers(ListClose) =>
          \A j \in {MatchingListOpen(fed')} :
              j # 0 => stack' = StackAfter(fed, j - 1) ]_vars

----------------------------------------------------------------------------
(* C28 *)

IsChildOf(c, parent) ==
    \E k \in 1..Len(nodes[parent].children) : nodes[parent].children[k] = c

\* C28: the container stack is a path of the tree built so far: its bottom is
\* the root and each element above the bottom is a child of the element
\* directly beneath it
C28_StackIsPath ==
    /\ stack # <<>>
    /\ stack[1] = Root
    /\ \A i \in 1..(Len(stack) - 1) : IsChildOf(stack[i + 1], stack[i])

----------------------------------------------------------------------------
(* C29 *)

Trimmed(o) == IF o = None THEN None ELSE Some(Strip(o[1]))

\* C29: inside a sitemap object the two accumulators hold the values of the
\* last Name and the last Local param since the most recent sitemap
\* object-open, which resets both; the node made at the entry close takes its
\* title and target from these, so no value of an earlier entry reaches it
C29_NoCarryOver ==
    /\ [](in_object =>
            /\ cur_name = Trimmed(LastParamValue(fed, S_name))
            /\ cur_local = Trimmed(LastParamValue(fed, S_local)))
    /\ [][ (Len(fed') = Len(fed) + 1 /\ IsSitemapOpen(fed'[Len(fed')])) =>
             (in_object' /\ cur_name' = None /\ cur_local' = None) ]_vars
    /\ [][ ClosesEntry =>
             /\ nodes'[Len(nodes')].title = NodeTitle(Trimmed(LastParamValue(fed, S_name)))
             /\ nodes'[Len(nodes')].local = NodeLocal(Trimmed(LastParamValue(fed, S_local))) ]_vars

\* an entry with a title and a target, followed by an entry without params
C29_Witness ==
    /\ Len(nodes) = 3
    /\ IsEntryClose(fed, Len(fed))
    /\ nodes[2].title # S_Untitled
    /\ nodes[2].local # None
    /\ LastParamValue(fed, S_name) = None
    /\ LastParamValue(fed, S_local) = None
    /\ nodes[3].title = S_Untitled
    /\ nodes[3].local = None

----------------------------------------------------------------------------
(* C26 *)

\* q with every blank replaced by "+"
PlusForEachSpace(q) == [i \in DOMAIN q |-> IF q[i] = " " THEN "+" ELSE q[i]]

\* the words of q: its maximal runs of characters that are not white space
RECURSIVE WordsFrom(_, _)
WordsFrom(q, cur) ==
    IF q = <<>> THEN (IF cur = <<>> THEN <<>> ELSE <<cur>>)
    ELSE IF IsSpace(Head(q))
    THEN (IF cur = <<>> THEN <<>> ELSE <<cur>>) \o WordsFrom(Tail(q), <<>>)
    ELSE WordsFrom(Tail(q), Append(cur, Head(q)))

RECURSIVE PlusJoined(_)
PlusJoined(words) ==
    IF words = <<>> THEN <<>>
    ELSE IF Len(words) = 1 THEN words[1]
    ELSE words[1] \o <<"+">> \o PlusJoined(Tail(words))

\* what a search call does, given how the query text is encoded
SearchCallWith(encoded) ==
    \A file \in {PathJoin(OrEmpty(base_dir), S_search_html)} :
        IF OrEmpty(base_dir) # <<>> /\ WordsFrom(search_text', <<>>) # <<>>
        THEN IF Exists(file)
             THEN /\ web' = [kind |-> "file", path |-> file, frag |-> <<>>,
                             query |-> Some(<<"q", "=">> \o encoded)]
                  /\ warnings' = <<>>
             ELSE /\ web' = web
                  /\ Len(warnings') = 1
        ELSE /\ web' = web
             /\ warnings' = <<>>

\* C26: open_sphinx_search shows base/search.html with the query q=<text>
\* only when that file exists and the trimmed query is not empty, <text>
\* being the trimmed query with each space replaced by "+"; without
\* search.html it warns and shows nothing new; an empty query does nothing
C26_SearchQuery ==
    [][SearchCallWith(PlusForEachSpace(Strip(search_text')))]_vars

\* C26 with the encoding the code has: <text> is the trimmed query with each
\* run of white space replaced by one "+"
C26_SearchQueryRuns ==
    [][SearchCallWith(PlusJoined(WordsFrom(search_text', <<>>)))]_vars

\* a query of two words two blanks apart, shown with one "+" between them
C26_Witness ==
    /\ search_text = <<"a", " ", " ", "a">>
    /\ web.kind = "file"
    /\ web.path = <<"/","d","/","s","e","a","r","c","h",".","h","t","m","l">>
    /\ web.query = Some(<<"q", "=", "a", "+", "a">>)

----------------------------------------------------------------------------
(* C25 *)

StrictOrder == <<"utf-8-sig", "utf-8", "cp1252", "latin-1">>

\* the strict attempts that succeed on the bytes bs, by position in the order
Succeeding(bs) == {i \in DOMAIN StrictOrder : ReadStrict(StrictOrder[i], bs) # None}

\* UTF-8 decoding that puts U+FFFD where bytes do not decode
RECURSIVE Utf8Replacing(_)
Utf8Replacing(bs) ==
    IF bs = <<>> THEN <<>>
    ELSE IF Utf8Len(bs[1]) > 0 /\ Utf8Good(bs, 2) = Utf8Len(bs[1]) - 1
    THEN <<Utf8CodePoint(bs, Utf8Len(bs[1]))>>
            \o Utf8Replacing(SubSeq(bs, Utf8Len(bs[1]) + 1, Len(bs)))
    ELSE <<65533>> \o Utf8Replacing(SubSeq(bs, 2 + Utf8Good(bs, 2), Len(bs)))

\* C25: _read_text_fallback returns, for every content of the file, the text
\* of the first of the strict decodings utf-8-sig, utf-8, cp1252, latin-1
\* that succeeds, the permissive UTF-8 text only when none does, and it
\* always returns
C25_FirstStrictDecoding ==
    /\ [](read_text # None =>
            \A ok \in {Succeeding(file_bytes)} :
                IF ok # {}
                THEN \E i \in ok :
                        /\ \A j \in ok : i <= j
                        /\ read_text = ReadStrict(StrictOrder[i], file_bytes)
                ELSE read_text = Some(UniversalNewlines(Utf8Replacing(file_bytes))))
    /\ [][read_text' # None]_vars

\* a file that is neither UTF-8 nor cp1252, read as latin-1
C25_Witness ==
    /\ file_bytes = <<65, 129>>
    /\ Succeeding(file_bytes) = {4}
    /\ read_text = Some(<<65, 129>>)

----------------------------------------------------------------------------
(* C24 *)

\* C24: the contents model holds nothing or exactly the rows of one parse of
\* the contents file; loading the file again, when the model already holds
\* what a load of it produced, leaves the model equal to that: no rows of
\* the earlier load are kept
C24_ReloadIsIdempotent ==
    /\ [](contents_model = <<>> \/ contents_model = ContentsRows(hhc))
    /\ [][ contents_model = ContentsRows(hhc) => contents_model' = contents_model ]_vars

\* a file of three entries, loaded
C24_Witness ==
    /\ Len(ParseHhFile(hhc)) = 4
    /\ contents_model # <<>>
    /\ contents_model = ContentsRows(hhc)

----------------------------------------------------------------------------
(* C22, C23, C30 *)

IsContentsName(name) ==
    Len(name) >= 4 /\ Lower(SubSeq(name, Len(name) - 3, Len(name))) = S_hhc

IsIndexName(name) ==
    Len(name) >= 4 /\ Lower(SubSeq(name, Len(name) - 3, Len(name))) = S_hhk

\* the archive has no contents file beside it, and its extraction fails or
\* leaves no contents file
CannotLoad(a) ==
    /\ a.hhc = None
    /\ \/ a.tool = "none"
       \/ a.tool = "fails"
       \/ \A i \in DOMAIN a.listing : ~IsContentsName(a.listing[i].name)

\* a call of load_from_chm_path with an archive other than the latest
LoadCall == chm' # chm \/ tmp_made' # tmp_made

\* C22: a load of an archive that has no contents file beside it and whose
\* extraction fails or yields no contents file reports the failure and leaves
\* base directory, contents tree, index list and displayed document as
\* they were
C22_FailedLoadKeepsSession ==
    [][ (LoadCall /\ CannotLoad(chm'[1])) =>
          /\ Len(warnings') = 1
          /\ warnings'[1].kind \in {"NoContents", "NoHhcFound"}
          /\ base_dir' = base_dir
          /\ contents_model' = contents_model
          /\ index_model' = index_model
          /\ web' = web
          /\ loaded' = loaded ]_vars

\* a session with an archive open and a page of it shown, after a load of an
\* archive whose extraction left no contents file
C22_Witness ==
    /\ chm # None
    /\ loaded # None
    /\ chm # loaded
    /\ chm[1].tool = "ok"
    /\ chm[1].listing # <<>>
    /\ CannotLoad(chm[1])
    /\ base_dir = Some(<<"/", "d">>)
    /\ web.kind = "file"
    /\ contents_model # <<>>
    /\ index_model # <<>>

\* the position of the first file of the listing whose name is of kind Is
FirstWhere(listing, Is(_)) ==
    IF \E i \in DOMAIN listing : Is(listing[i].name)
    THEN CHOOSE i \in DOMAIN listing :
            Is(listing[i].name) /\ \A j \in 1..(i - 1) : ~Is(listing[j].name)
    ELSE 0

\* the directories a completed load of archive a can work from: the one the
\* archive lies in, or one of the temporary directories made so far that
\* hold its files; its contents text and its index text (None for none)
DirsOf(a) ==
    IF a.hhc # None THEN {Dirname(a.path)}
    ELSE {TmpName(n, ListingId(a.listing)) : n \in 1..tmp_made}
ContentsOf(a) ==
    IF a.hhc # None THEN a.hhc[1]
    ELSE a.listing[FirstWhere(a.listing, IsContentsName)].text
IndexOf(a) ==
    IF a.hhc # None THEN a.hhk
    ELSE IF FirstWhere(a.listing, IsIndexName) = 0 THEN None
    ELSE Some(a.listing[FirstWhere(a.listing, IsIndexName)].text)

\* C23: once a load has completed, the base directory is that of the archive
\* loaded last, the contents tree is the tree of its contents file, and the
\* index list is the list of its index file, or empty when it has none
C23_ModelsOfCurrentArchive ==
    /\ loaded = None => (base_dir = None /\ contents_model = <<>> /\ index_model = <<>>)
    /\ loaded # None =>
          /\ OrEmpty(base_dir) \in DirsOf(loaded[1])
          /\ contents_model = ContentsRows(ContentsOf(loaded[1]))
          /\ index_model = IF IndexOf(loaded[1]) = None THEN <<>>
                           ELSE IndexRows(IndexOf(loaded[1])[1])

\* an extracted archive without an index file is open, after the load of
\* another archive was asked for and failed: the index is empty
C23_Witness ==
    /\ loaded # None
    /\ loaded[1].hhc = None
    /\ IndexOf(loaded[1]) = None
    /\ chm # loaded
    /\ OrEmpty(base_dir) \in TmpPaths
    /\ contents_model # <<>>
    /\ index_model = <<>>

\* the start pages of the archive open in directory dir with contents rows
StartPagesOf(dir, rows) ==
    {[kind |-> "file", path |-> PathJoin(dir, S_index_html), frag |-> <<>>,
      query |-> None]}
    \cup (IF FirstTarget(rows) = None THEN {}
          ELSE {[kind |-> "file",
                 path |-> NormPath(PathJoin(dir, FirstTarget(rows)[1])),
                 frag |-> <<>>, query |-> None]})

\* C30: after a load that completes and replaces the base directory, the
\* document shown is the start page of the new archive: its index.html or
\* its first navigable contents target
C30_StartPageOfNewArchive ==
    [][ (LoadCall /\ loaded' = chm' /\ base_dir' # base_dir) =>
          web' \in StartPagesOf(OrEmpty(base_dir'), contents_model') ]_vars

====
